---- MODULE Spec2Model ----
(***************************************************************************)
(* Kinematic core of the planetary gear-train editor: the linear-system    *)
(* solver (solveGearSystem), its rank classification (rankOf) and the      *)
(* least-squares primitives (numeric.ts), driven by the model the editor   *)
(* builds from its stages (buildModelFromUI).                              *)
(*                                                                         *)
(* Numbers.  The code computes in IEEE doubles; the model computes in      *)
(* exact arithmetic on numbers of the form (n + t*delta)/d, written        *)
(* <<n, t, d>>, with n, t integers, d a positive integer and               *)
(* delta = 10^-10 rpm, a quantity below the solver's rank tolerance        *)
(* (1e-9).  Tooth counts and matrix coefficients are pure (t = 0); only    *)
(* right-hand sides (known speeds) carry a delta part, and every product   *)
(* the algorithms form has at least one pure factor, so the arithmetic     *)
(* stays exact.  Comparisons against the code's thresholds (1e-9, 1e-12,   *)
(* 1e-15) are decided exactly for the magnitudes the model reaches         *)
(* (denominators and delta-numerators below 10^6).                         *)
(***************************************************************************)
EXTENDS Integers, Sequences, FiniteSets, TLC

----------------------------------------------------------------------------
(* Exact numbers <<n, t, d>> = (n + t*delta)/d.                            *)

Abs(a) == IF a < 0 THEN -a ELSE a
Max1(a) == IF a < 1 THEN 1 ELSE a

RECURSIVE GCD(_, _)
GCD(a, b) == IF b = 0 THEN a ELSE GCD(b, a % b)

Norm(n, t, d) ==
  LET g == GCD(GCD(Abs(n), Abs(t)), d)
  IN  <<n \div g, t \div g, d \div g>>

Num(k) == <<k, 0, 1>>
Zero == Num(0)
One == Num(1)

IsPure(x) == x[2] = 0
IsZero(x) == x[1] = 0 /\ x[2] = 0

NNeg(x) == <<-x[1], -x[2], x[3]>>

NAdd(x, y) ==
  LET g == GCD(x[3], y[3])
      fx == y[3] \div g
      fy == x[3] \div g
  IN  Norm(x[1] * fx + y[1] * fy, x[2] * fx + y[2] * fy, x[3] * fx)

NSub(x, y) == NAdd(x, NNeg(y))

\* A product with at least one pure factor (the only products the code forms
\* on these inputs); two delta-carrying factors have no value here.
NMul(x, y) ==
  IF x[2] # 0 /\ y[2] # 0 THEN CHOOSE v \in {} : TRUE
  ELSE LET g1 == GCD(GCD(Abs(x[1]), Abs(x[2])), y[3])
           g2 == GCD(GCD(Abs(y[1]), Abs(y[2])), x[3])
           xn == x[1] \div g1
           xt == x[2] \div g1
           yd == y[3] \div g1
           yn == y[1] \div g2
           yt == y[2] \div g2
           xd == x[3] \div g2
       IN  Norm(xn * yn, xn * yt + xt * yn, xd * yd)

\* x / y for y # 0: by a pure divisor, or of a number by itself.
NDiv(x, y) ==
  IF x = y THEN One
  ELSE IF y[2] # 0 THEN CHOOSE v \in {} : TRUE
  ELSE IF y[1] > 0 THEN NMul(x, <<y[3], 0, y[1]>>)
  ELSE NMul(x, <<-y[3], 0, -y[1]>>)

\* Math.abs
NAbs(x) == IF x[1] > 0 \/ (x[1] = 0 /\ x[2] >= 0) THEN x ELSE NNeg(x)

\* p/q > r/s for q, s > 0, with the common factors taken out first
FracGt(p, q, r, s) ==
  LET g == GCD(q, s)
      h == Max1(GCD(Abs(p), Abs(r)))
  IN  (p \div h) * (s \div g) > (r \div h) * (q \div g)

\* Math.abs(x) > Math.abs(y): standard parts first, delta parts on a tie.
NAbsGt(x, y) ==
  LET a == NAbs(x)
      b == NAbs(y)
  IN  \/ FracGt(a[1], a[3], b[1], b[3])
      \/ ~FracGt(b[1], b[3], a[1], a[3]) /\ FracGt(a[2], a[3], b[2], b[3])

\* Math.abs(x) < 1e-9, 1e-12, 1e-15 (delta = 1e-10).
AbsLt1e9(x) == x[1] = 0 /\ Abs(x[2]) < 10 * x[3]
AbsLt1e12(x) == x[1] = 0 /\ 100 * Abs(x[2]) < x[3]
AbsLt1e15(x) == x[1] = 0 /\ 100000 * Abs(x[2]) < x[3]

----------------------------------------------------------------------------
(* numeric.ts                                                              *)

\* A sequence given by a rule, evaluated once, entry by entry (a list the
\* code has built, as opposed to a rule that is re-read at every access).
Strict(f) == f \o <<>>

RECURSIVE SumTo(_, _)
SumTo(f, k) == IF k = 0 THEN Zero ELSE NAdd(SumTo(f, k - 1), f[k])

\* M[0].map((_, j) => M.map(row => row[j])); M[0] of an empty matrix is
\* undefined and the call raises (modelled by the callers' guards).
transpose(M) ==
  Strict([j \in 1..Len(M[1]) |-> Strict([i \in 1..Len(M) |-> M[i][j]])])

matMul(A, B) ==
  Strict([i \in 1..Len(A) |->
    Strict([j \in 1..Len(B[1]) |->
      SumTo([t \in 1..Len(A[1]) |-> NMul(A[i][t], B[t][j])], Len(A[1]))])])

matVec(A, x) ==
  Strict([i \in 1..Len(A) |->
    SumTo([k \in 1..Len(A[i]) |-> NMul(A[i][k], x[k])], Len(A[i]))])

\* the pivot search of both eliminations: the first row of largest magnitude
RECURSIVE PivotScan(_, _, _, _)
PivotScan(M, c, i, piv) ==
  IF i > Len(M) THEN piv
  ELSE PivotScan(M, c, i + 1, IF NAbsGt(M[i][c], M[piv][c]) THEN i ELSE piv)

SwapRows(M, r, p) ==
  Strict([i \in 1..Len(M) |-> IF i = r THEN M[p] ELSE IF i = p THEN M[r] ELSE M[i]])

\* normalise row r from column c on, then clear column c in every other row
Eliminate(M, r, c) ==
  LET w == Len(M[r])
      div == M[r][c]
      R == Strict([j \in 1..w |-> IF j >= c THEN NDiv(M[r][j], div) ELSE M[r][j]])
  IN  Strict([i \in 1..Len(M) |->
        IF i = r THEN R
        ELSE LET f == M[i][c]
             IN  IF IsZero(f) THEN M[i]
                 ELSE Strict([j \in 1..w |->
                        IF j >= c THEN NSub(M[i][j], NMul(f, R[j])) ELSE M[i][j]])])

RECURSIVE GaussLoop(_, _)
GaussLoop(M, c) ==
  IF c > Len(M) THEN M
  ELSE LET piv == PivotScan(M, c, c + 1, c)
       IN  IF AbsLt1e15(M[piv][c]) THEN GaussLoop(M, c + 1)
           ELSE GaussLoop(Eliminate(SwapRows(M, c, piv), c, c), c + 1)

solveGaussian(A, b) ==
  LET n == Len(A)
      M == Strict([i \in 1..n |-> Append(A[i], b[i])])
      S == GaussLoop(M, 1)
  IN  Strict([i \in 1..n |-> S[i][n + 1]])

\* a slip: the normal equations solved against b instead of At.b
leastSquaresRawB(A, b) ==
  LET AT == transpose(A)
      ATA == matMul(AT, A)
  IN  solveGaussian(ATA, b)

leastSquares(A, b) ==
  LET AT == transpose(A)
      ATA == matMul(AT, A)
      ATb == matVec(AT, b)
  IN  solveGaussian(ATA, ATb)

----------------------------------------------------------------------------
(* solver: rankOf                                                          *)

RECURSIVE RankLoop(_, _, _)
RankLoop(A, r, c) ==
  LET n == Len(A)
      m == IF n = 0 THEN 0 ELSE Len(A[1])
  IN  IF ~(r <= n /\ c <= m) THEN r - 1
      ELSE LET pivot == PivotScan(A, c, r + 1, r)
           IN  IF AbsLt1e9(A[pivot][c]) THEN RankLoop(A, r, c + 1)
               ELSE RankLoop(Eliminate(SwapRows(A, r, pivot), r, c), r + 1, c + 1)

rankOf(M) == RankLoop(M, 1, 1)

----------------------------------------------------------------------------
(* solver: solveGearSystem                                                 *)

InSeq(s, v) == \E k \in 1..Len(s) : s[k] = v

\* Set.add in insertion order
AddUnique(s, v) == IF InSeq(s, v) THEN s ELSE Append(s, v)

RECURSIVE AddAll(_, _)
AddAll(s, names) ==
  IF names = <<>> THEN s ELSE AddAll(AddUnique(s, Head(names)), Tail(names))

\* the names a constraint contributes: var, a, b, each only when truthy
\* (an absent or empty name is "")
ConstraintNames(cx) == SelectSeq(<<cx.var, cx.a, cx.b>>, LAMBDA v : v # "")

RECURSIVE CollectConstraintVars(_, _)
CollectConstraintVars(s, cs) ==
  IF cs = <<>> THEN s
  ELSE CollectConstraintVars(AddAll(s, ConstraintNames(Head(cs))), Tail(cs))

\* vlist = Array.from(vars): elements, then carriers, then constraints
VList(model) ==
  LET els == AddAll(<<>>, [k \in 1..Len(model.elements) |-> model.elements[k].omega])
      cas == AddAll(els, [k \in 1..Len(model.carriers) |-> model.carriers[k].omega])
  IN  CollectConstraintVars(cas, model.constraints)

\* vidx[v]; 0 stands for undefined
VIdx(vlist, v) == IF InSeq(vlist, v) THEN CHOOSE k \in 1..Len(vlist) : vlist[k] = v ELSE 0

\* row[k] += x and row[k] = x; an undefined index leaves the numeric row alone
RowAdd(row, k, x) == IF k = 0 THEN row ELSE [row EXCEPT ![k] = NAdd(@, x)]
RowSet(row, k, x) == IF k = 0 THEN row ELSE [row EXCEPT ![k] = x]

ZeroRow(n) == Strict([k \in 1..n |-> Zero])

\* a slip: a missing element or tooth count read as one tooth
lookupNDefault(model, omegaId) ==
  LET hits == {k \in 1..Len(model.elements) :
                 model.elements[k].omega = omegaId /\ model.elements[k].N # <<>>}
  IN  IF hits = {} THEN [ok |-> TRUE, error |-> "", N |-> 1]
      ELSE [ok |-> TRUE, error |-> "",
            N |-> model.elements[CHOOSE k \in hits : \A h \in hits : k <= h].N[1]]

\* lookupN: the first element carrying omegaId; raises when there is none
\* or when it has no numeric N (N is <<>> when absent, <<teeth>> otherwise)
lookupN(model, omegaId) ==
  LET hits == {k \in 1..Len(model.elements) : model.elements[k].omega = omegaId}
  IN  IF hits = {} THEN [ok |-> FALSE, error |-> "Elemento nao encontrado", N |-> 0]
      ELSE LET e == model.elements[CHOOSE k \in hits : \A h \in hits : k <= h]
           IN  IF e.N = <<>> THEN [ok |-> FALSE, error |-> "Elemento sem N", N |-> 0]
               ELSE [ok |-> TRUE, error |-> "", N |-> e.N[1]]

\* a slip: the internal mesh given the sign of an external one
SigmaAlwaysExternal(m) == 1

\* sigma of a mesh: +1 external, -1 internal
Sigma(m) == IF m.type = "external" THEN 1 ELSE -1

MeshRow(model, vlist, m) ==
  LET Ni == lookupN(model, m.i).N
      Nj == lookupN(model, m.j).N
      sg == Sigma(m)
      r0 == ZeroRow(Len(vlist))
      r1 == RowAdd(r0, VIdx(vlist, m.i), Num(Ni))
      r2 == RowAdd(r1, VIdx(vlist, m.carrier), Num(-Ni))
      r3 == RowAdd(r2, VIdx(vlist, m.j), Num(sg * Nj))
      r4 == RowAdd(r3, VIdx(vlist, m.carrier), Num(-(sg * Nj)))
  IN  [A |-> r4, b |-> Zero]

\* c.value ?? 0 (value is <<>> when absent, <<x>> otherwise)
ValueOr0(c) == IF c.value = <<>> THEN Zero ELSE c.value[1]

\* a slip: the lock row given the right-hand side 1
ConstraintRowLockOne(vlist, c) ==
  LET r0 == ZeroRow(Len(vlist))
  IN  IF c.type = "known"
        THEN [A |-> RowSet(r0, VIdx(vlist, c.var), One), b |-> ValueOr0(c)]
      ELSE IF c.type = "equal"
        THEN [A |-> RowAdd(RowSet(r0, VIdx(vlist, c.a), One), VIdx(vlist, c.b), Num(-1)),
              b |-> Zero]
      ELSE [A |-> RowSet(r0, VIdx(vlist, c.var), One), b |-> One]

ConstraintRow(vlist, c) ==
  LET r0 == ZeroRow(Len(vlist))
  IN  IF c.type = "known"
        THEN [A |-> RowSet(r0, VIdx(vlist, c.var), One), b |-> ValueOr0(c)]
      ELSE IF c.type = "equal"
        THEN [A |-> RowAdd(RowSet(r0, VIdx(vlist, c.a), One), VIdx(vlist, c.b), Num(-1)),
              b |-> Zero]
      ELSE [A |-> RowSet(r0, VIdx(vlist, c.var), One), b |-> Zero]

\* the rows in emission order: meshes, then known / equal / lock constraints
Rows(model, vlist) ==
  [k \in 1..Len(model.meshes) |-> MeshRow(model, vlist, model.meshes[k])]
    \o [k \in 1..Len(model.constraints) |-> ConstraintRow(vlist, model.constraints[k])]

\* the first mesh whose lookupN raises (0 when none does), and its error
FirstBadMesh(model) ==
  LET bad == {k \in 1..Len(model.meshes) :
                ~lookupN(model, model.meshes[k].i).ok \/ ~lookupN(model, model.meshes[k].j).ok}
  IN  IF bad = {} THEN 0 ELSE CHOOSE k \in bad : \A h \in bad : k <= h

MeshError(model, k) ==
  LET li == lookupN(model, model.meshes[k].i)
  IN  IF ~li.ok THEN li.error ELSE lookupN(model, model.meshes[k].j).error

stack(rows) ==
  [A |-> Strict([r \in 1..Len(rows) |-> rows[r].A]),
   b |-> Strict([r \in 1..Len(rows) |-> rows[r].b])]

Max2(a, b) == IF a >= b THEN a ELSE b

EmptyMap == [v \in {} |-> Zero]

Raised(msg) == [kind |-> "raised", error |-> msg]

\* JavaScript num / den on numbers
JsDivide(num, den) ==
  IF IsZero(den)
    THEN (IF IsZero(num) THEN [kind |-> "NaN"] ELSE [kind |-> "Infinity"])
    ELSE [kind |-> "number", num |-> num, den |-> den]

\* a slip: the quotient taken without the guard on the denominator
RatioValueNoGuard(velocities, r) ==
  IF r.den \notin DOMAIN velocities \/ r.num \notin DOMAIN velocities THEN [kind |-> "NaN"]
  ELSE JsDivide(velocities[r.num], velocities[r.den])

\* value: Math.abs(den) < 1e-12 ? NaN : num / den; a variable missing from
\* the map reads as undefined, and every comparison and quotient with it is NaN
RatioValue(velocities, r) ==
  IF r.den \notin DOMAIN velocities THEN [kind |-> "NaN"]
  ELSE IF AbsLt1e12(velocities[r.den]) THEN [kind |-> "NaN"]
  ELSE IF r.num \notin DOMAIN velocities THEN [kind |-> "NaN"]
  ELSE JsDivide(velocities[r.num], velocities[r.den])

Ratios(model, velocities) ==
  [k \in 1..Len(model.ratios) |->
     [id |-> model.ratios[k].id, value |-> RatioValue(velocities, model.ratios[k])]]

\* a slip: rank deficiency tested before inconsistency
ClassifyUnderFirst(rank, rankAug, nRows, nVars) ==
  IF rank < nVars
    THEN [kind |-> "underdetermined",
          conflictingConstraints |-> 0,
          missingConstraints |-> Max2(0, nVars - rank)]
  ELSE IF rankAug > rank
    THEN [kind |-> "overdetermined",
          conflictingConstraints |-> Max2(Max2(1, rankAug - rank), nRows - nVars),
          missingConstraints |-> 0]
  ELSE [kind |-> "solved", conflictingConstraints |-> 0, missingConstraints |-> 0]

\* a slip: rank <= nVars where rank < nVars is meant
ClassifyOffByOne(rank, rankAug, nRows, nVars) ==
  IF rankAug > rank
    THEN [kind |-> "overdetermined",
          conflictingConstraints |-> Max2(Max2(1, rankAug - rank), nRows - nVars),
          missingConstraints |-> 0]
  ELSE IF rank <= nVars
    THEN [kind |-> "underdetermined",
          conflictingConstraints |-> 0,
          missingConstraints |-> Max2(0, nVars - rank)]
  ELSE [kind |-> "solved", conflictingConstraints |-> 0, missingConstraints |-> 0]

\* the rank classification: inconsistency first, then rank deficiency
Classify(rank, rankAug, nRows, nVars) ==
  IF rankAug > rank
    THEN [kind |-> "overdetermined",
          conflictingConstraints |-> Max2(Max2(1, rankAug - rank), nRows - nVars),
          missingConstraints |-> 0]
  ELSE IF rank < nVars
    THEN [kind |-> "underdetermined",
          conflictingConstraints |-> 0,
          missingConstraints |-> Max2(0, nVars - rank)]
  ELSE [kind |-> "solved", conflictingConstraints |-> 0, missingConstraints |-> 0]

\* the result is [kind |-> "solved" | "underdetermined" | "overdetermined" |
\* "raised", ...] with the fields of the object the code returns
\* the return of the solved variant: x mapped back to the variable names
Solution(model, vlist, sol) ==
  LET velocities == [v \in {vlist[k] : k \in 1..Len(vlist)} |-> sol[VIdx(vlist, v)]]
  IN  [kind |-> "solved",
       variables |-> vlist,
       velocities |-> velocities,
       ratios |-> Ratios(model, velocities)]

\* the three variants, by the classification cl of the ranks
Variant(model, vlist, A, b, cl) ==
  IF cl.kind = "overdetermined"
    THEN [kind |-> "overdetermined",
          velocities |-> EmptyMap,
          ratios |-> <<>>,
          conflictingConstraints |-> cl.conflictingConstraints,
          missingConstraints |-> 0]
  ELSE IF cl.kind = "underdetermined"
    THEN [kind |-> "underdetermined",
          velocities |-> EmptyMap,
          undetermined |-> vlist,
          ratios |-> <<>>,
          missingConstraints |-> cl.missingConstraints]
  \* transpose(A) of rows without columns is [], and matMul raises on it
  ELSE IF Len(A[1]) = 0 THEN Raised("TypeError")
  ELSE Solution(model, vlist, leastSquares(A, b))

\* the stacked system A x = b of nRows rows
Stacked(model, vlist, nRows, A, b) ==
  \* const nVars = A[0].length: A[0] is undefined when no row was emitted
  IF Len(A) = 0 THEN Raised("TypeError")
  ELSE Variant(model, vlist, A, b,
               Classify(rankOf(A),
                        rankOf(Strict([i \in 1..Len(A) |-> Append(A[i], b[i])])),
                        nRows, Len(A[1])))

Emitted(model, vlist, rows) ==
  Stacked(model, vlist, Len(rows), stack(rows).A, stack(rows).b)

solveGearSystem(model) ==
  IF FirstBadMesh(model) # 0 THEN Raised(MeshError(model, FirstBadMesh(model)))
  ELSE Emitted(model, VList(model), Rows(model, VList(model)))

----------------------------------------------------------------------------
(* editor: buildModelFromUI                                                *)

omegaS(sid) == "omega_s" \o ToString(sid)
omegaA(sid) == "omega_a" \o ToString(sid)
omegaB(sid) == "omega_b" \o ToString(sid)
omegaP(sid, k) == "omega_p" \o ToString(sid) \o "_" \o ToString(k)

\* a stage is [id, solarZ, planetsZ, annulusZ]; solarZ and annulusZ are <<>>
\* when null and <<teeth>> otherwise
StageElements(st) ==
  (IF st.solarZ # <<>>
     THEN <<[id |-> "sol" \o ToString(st.id), type |-> "solar", N |-> st.solarZ,
             omega |-> omegaS(st.id)]>>
     ELSE <<>>)
  \o <<[id |-> "arm" \o ToString(st.id), type |-> "arm", N |-> <<>>, omega |-> omegaB(st.id)]>>
  \o [k \in 1..Len(st.planetsZ) |->
        [id |-> "p" \o ToString(st.id) \o "_" \o ToString(k), type |-> "planet",
         N |-> <<st.planetsZ[k]>>, omega |-> omegaP(st.id, k)]]
  \o (IF st.annulusZ # <<>>
        THEN <<[id |-> "ann" \o ToString(st.id), type |-> "annulus", N |-> st.annulusZ,
                omega |-> omegaA(st.id)]>>
        ELSE <<>>)

StageMeshes(st) ==
  (IF st.solarZ # <<>> /\ Len(st.planetsZ) >= 1
     THEN <<[i |-> omegaS(st.id), j |-> omegaP(st.id, 1), carrier |-> omegaB(st.id),
             type |-> "external"]>>
     ELSE <<>>)
  \o [k \in 1..(Len(st.planetsZ) - 1) |->
        [i |-> omegaP(st.id, k), j |-> omegaP(st.id, k + 1), carrier |-> omegaB(st.id),
         type |-> "external"]]
  \o (IF st.annulusZ # <<>> /\ Len(st.planetsZ) >= 1
        THEN <<[i |-> omegaP(st.id, Len(st.planetsZ)), j |-> omegaA(st.id),
                carrier |-> omegaB(st.id), type |-> "internal"]>>
        ELSE <<>>)

\* the pushes of the loop over the stages, in stage order
RECURSIVE AllElements(_)
AllElements(stages) ==
  IF stages = <<>> THEN <<>> ELSE StageElements(Head(stages)) \o AllElements(Tail(stages))

RECURSIVE AllMeshes(_)
AllMeshes(stages) ==
  IF stages = <<>> THEN <<>> ELSE StageMeshes(Head(stages)) \o AllMeshes(Tail(stages))

Known(v, x) == [type |-> "known", var |-> v, a |-> "", b |-> "", value |-> <<x>>]
Equal(a, b) == [type |-> "equal", var |-> "", a |-> a, b |-> b, value |-> <<>>]
Lock(v) == [type |-> "lock", var |-> v, a |-> "", b |-> "", value |-> <<>>]

\* speeds are [var, value], couplings [a, b], ratio [entrada, saida]; an
\* unset name (undefined in the code) is ""
buildModelFromUI(stages, speeds, couplings, ratio) ==
  [elements |-> AllElements(stages),
   meshes |-> AllMeshes(stages),
   constraints |->
     [k \in 1..Len(SelectSeq(speeds, LAMBDA sp : sp.var # "")) |->
        LET sp == SelectSeq(speeds, LAMBDA d : d.var # "")[k]
        IN  Known(sp.var, sp.value)]
       \o [k \in 1..Len(SelectSeq(couplings, LAMBDA c : c.a # "" /\ c.b # "")) |->
             LET c == SelectSeq(couplings, LAMBDA d : d.a # "" /\ d.b # "")[k]
             IN  Equal(c.a, c.b)],
   ratios |-> IF ratio.entrada # "" /\ ratio.saida # ""
                THEN <<[id |-> "entrada/saida", num |-> ratio.entrada, den |-> ratio.saida]>>
                ELSE <<>>,
   carriers |-> [k \in 1..Len(stages) |->
                   [id |-> "arm" \o ToString(stages[k].id), omega |-> omegaB(stages[k].id)]]]

----------------------------------------------------------------------------
(* assembly validator: validarMontagem                                     *)
(* Ns and Na are <<>> when null or undefined and <<teeth>> otherwise; the  *)
(* returned object is [tipo, valido] (its messages are left out).          *)

Montagem(tipo, valido) == [called |-> TRUE, tipo |-> tipo, valido |-> valido]

RECURSIVE SumSeq(_)
SumSeq(s) == IF s = <<>> THEN 0 ELSE Head(s) + SumSeq(Tail(s))

\* Math.max(1, Math.round(planetCopies || 1)) of a whole planetCopies
CopiesOf(planetCopies) == IF planetCopies < 1 THEN 1 ELSE planetCopies

\* 1 + 1 / Math.sin(Math.PI / copies), the double the code computes, in
\* millionths rounded down.  Math.sin(Math.PI / 2) is 1 and the double is
\* exactly 2; for every other copies the double lies strictly above the
\* value listed: Math.sin(Math.PI / 6) is 0.49999999999999994, so the
\* double for 6 copies is 3.0000000000000004
CscFactorMicro(copies) ==
  CASE copies = 2 -> 2000000
    [] copies = 3 -> 2154700
    [] copies = 4 -> 2414213
    [] copies = 5 -> 2701301
    [] copies = 6 -> 3000000
    [] copies = 7 -> 3304764
    [] copies = 8 -> 3613125

CscFactorExact(copies) == copies = 2

\* Math.ceil(Zc * (1 + 1 / s)); s <= 1e-6 needs more than three million copies
MinNa(Zc, copies) ==
  IF Zc = 0 THEN 0
  ELSE IF CscFactorExact(copies) THEN (Zc * CscFactorMicro(copies)) \div 1000000
  ELSE (Zc * CscFactorMicro(copies)) \div 1000000 + 1

\* a slip: the first rule left out
SemPrimeiraRegra(Ns, Np, Na) == FALSE

\* the first rule: sun and ring present, no planet
SolarAnelarSemPlaneta(Ns, Np, Na) == Ns # <<>> /\ Na # <<>> /\ Len(Np) = 0

\* no sun: inscribed circles against the ring
SemSolar(Np, Na, planetCopies) ==
  LET copies == CopiesOf(planetCopies)
      NaAbs == Abs(Na[1])
      Zc == Abs(Np[Len(Np)])
  IN  IF Len(Np) >= 1 /\ (IF copies <= 1 THEN NaAbs <= Zc ELSE NaAbs < MinNa(Zc, copies))
        THEN Montagem("impossivel", FALSE)
        ELSE Montagem("aberta", TRUE)

\* a slip: one planet held to the limit of the longer chains
UmPlanetaLimite(Ns, Np, Na) ==
  IF Na > Ns + 2 * Np[1] THEN Montagem("impossivel", FALSE)
  ELSE Montagem(IF Na = Ns + 2 * Np[1] THEN "reto" ELSE "curvo", TRUE)

\* one planet: strict equality (Ns, Na are numbers here)
UmPlaneta(Ns, Np, Na) ==
  LET esperado == Ns + 2 * Np[1]
  IN  IF Na # esperado THEN Montagem("impossivel", FALSE) ELSE Montagem("reto", TRUE)

\* a slip: the chain above the limit called curved and not valid
DoisPlanetasCurvoInvalido(Ns, Np, Na) ==
  LET max == Ns + 2 * (Np[1] + Np[2])
  IN  IF Na > max THEN Montagem("curvo", FALSE)
      ELSE Montagem(IF Na = max THEN "reto" ELSE "curvo", TRUE)

\* a slip: Na >= max where Na > max is meant
DoisPlanetasEstrito(Ns, Np, Na) ==
  LET max == Ns + 2 * (Np[1] + Np[2])
  IN  IF Na >= max THEN Montagem("impossivel", FALSE)
      ELSE Montagem("curvo", TRUE)

\* two planets: Na <= Ns + 2*(Np1 + Np2)
DoisPlanetas(Ns, Np, Na) ==
  LET max == Ns + 2 * (Np[1] + Np[2])
  IN  IF Na > max THEN Montagem("impossivel", FALSE)
      ELSE Montagem(IF Na = max THEN "reto" ELSE "curvo", TRUE)

\* three planets or more (and whatever reaches the end of the function)
TresOuMaisPlanetas(Ns, Np, Na) ==
  LET max == Ns + 2 * SumSeq(Np)
  IN  IF Na > max THEN Montagem("impossivel", FALSE)
      ELSE Montagem(IF Na = max THEN "reto" ELSE "curvo", TRUE)

\* a slip: the no-sun rule tried before the no-ring rule (Math.abs(null) is 0)
validarMontagemSolarPrimeiro(Ns, Np, Na, planetCopies) ==
  IF SolarAnelarSemPlaneta(Ns, Np, Na) THEN Montagem("impossivel", FALSE)
  ELSE IF Ns = <<>> THEN SemSolar(Np, IF Na = <<>> THEN <<0>> ELSE Na, planetCopies)
  ELSE IF Na = <<>> THEN Montagem("aberta", TRUE)
  ELSE IF Len(Np) = 1 THEN UmPlaneta(Ns[1], Np, Na[1])
  ELSE IF Len(Np) = 2 THEN DoisPlanetas(Ns[1], Np, Na[1])
  ELSE TresOuMaisPlanetas(Ns[1], Np, Na[1])

validarMontagem(Ns, Np, Na, planetCopies) ==
  IF SolarAnelarSemPlaneta(Ns, Np, Na) THEN Montagem("impossivel", FALSE)
  ELSE IF Na = <<>> THEN Montagem("aberta", TRUE)
  ELSE IF Ns = <<>> THEN SemSolar(Np, Na, planetCopies)
  ELSE IF Len(Np) = 1 THEN UmPlaneta(Ns[1], Np, Na[1])
  ELSE IF Len(Np) = 2 THEN DoisPlanetas(Ns[1], Np, Na[1])
  ELSE TresOuMaisPlanetas(Ns[1], Np, Na[1])

----------------------------------------------------------------------------
(* topology: analisarTopologia and bfsPath                                 *)

\* elByOmega[w]: the last element carrying w, <<>> when there is none
elByOmega(model, w) ==
  LET hits == {k \in 1..Len(model.elements) : model.elements[k].omega = w}
  IN  IF hits = {} THEN <<>>
      ELSE <<model.elements[CHOOSE k \in hits : \A h \in hits : h <= k]>>

\* the carriers in the order meshesByCarrier receives them, and their meshes
MeshCarriers(model) ==
  AddAll(<<>>, [k \in 1..Len(model.meshes) |-> model.meshes[k].carrier])

MeshesOfCarrier(model, carrier) == SelectSeq(model.meshes, LAMBDA m : m.carrier = carrier)

OmegasOfType(model, type) ==
  LET els == SelectSeq(model.elements, LAMBDA e : e.type = type)
  IN  [k \in 1..Len(els) |-> els[k].omega]

\* a slip: the edge added in one direction only
RECURSIVE NeighboursForward(_, _, _)
NeighboursForward(meshes, u, acc) ==
  IF meshes = <<>> THEN acc
  ELSE NeighboursForward(Tail(meshes), u,
                         IF Head(meshes).i = u THEN AddUnique(acc, Head(meshes).j) ELSE acc)

\* the neighbours addE gives u, in insertion order
RECURSIVE Neighbours(_, _, _)
Neighbours(meshes, u, acc) ==
  IF meshes = <<>> THEN acc
  ELSE LET m == Head(meshes)
           a1 == IF m.i = u THEN AddUnique(acc, m.j) ELSE acc
           a2 == IF m.j = u THEN AddUnique(a1, m.i) ELSE a1
       IN  Neighbours(Tail(meshes), u, a2)

\* G: omega -> adjacent omegas, for the meshes of one carrier
GraphOf(meshes) ==
  [u \in {meshes[k].i : k \in 1..Len(meshes)} \cup {meshes[k].j : k \in 1..Len(meshes)} |->
     Neighbours(meshes, u, <<>>)]

\* the for loop over G.get(u): prev and q after the unseen neighbours of u
RECURSIVE Visit(_, _, _, _)
Visit(ns, u, q, prev) ==
  IF ns = <<>> THEN [q |-> q, prev |-> prev]
  ELSE IF Head(ns) \in DOMAIN prev THEN Visit(Tail(ns), u, q, prev)
  ELSE Visit(Tail(ns), u, Append(q, Head(ns)), prev @@ (Head(ns) :> <<u>>))

\* the while loop: prev when the queue is empty or dst is dequeued
RECURSIVE BfsLoop(_, _, _, _)
BfsLoop(G, dst, q, prev) ==
  IF q = <<>> THEN prev
  ELSE LET u == Head(q)
       IN  IF u = dst THEN prev
           ELSE LET st == Visit(IF u \in DOMAIN G THEN G[u] ELSE <<>>, u, Tail(q), prev)
                IN  BfsLoop(G, dst, st.q, st.prev)

\* the walk back from v along prev, reversed
RECURSIVE PathBack(_, _)
PathBack(prev, v) ==
  IF prev[v] = <<>> THEN <<v>> ELSE Append(PathBack(prev, prev[v][1]), v)

\* null is <<>>
bfsPath(G, src, dst) ==
  LET prev == BfsLoop(G, dst, <<src>>, (src :> <<>>))
  IN  IF dst \notin DOMAIN prev THEN <<>> ELSE PathBack(prev, dst)

\* isNum(e?.N)
ElNum(e) == e # <<>> /\ e[1].N # <<>>

\* e?.N ?? null
ElN(e) == IF ElNum(e) THEN e[1].N ELSE <<>>

\* a slip: the two-planet path given the status of the one-planet path
ClassifyPathTwoAsOne(model, path, planetas) ==
  LET eS == elByOmega(model, path[1])
      eA == elByOmega(model, path[Len(path)])
  IN  IF Len(planetas) = 1 /\ ElNum(eS) /\ ElNum(elByOmega(model, planetas[1])) /\ ElNum(eA)
        THEN LET ok == eA[1].N[1] = eS[1].N[1] + 2 * elByOmega(model, planetas[1])[1].N[1]
             IN  [validacao |-> IF ok THEN "ok" ELSE "falha",
                  status |-> IF ok THEN "braco-reto" ELSE "impossivel-1planeta-modulo"]
      ELSE IF Len(planetas) = 2 /\ ElNum(eS) /\ ElNum(elByOmega(model, planetas[1]))
                /\ ElNum(elByOmega(model, planetas[2])) /\ ElNum(eA)
        THEN LET ok == eA[1].N[1] = eS[1].N[1] + 2 * elByOmega(model, planetas[1])[1].N[1]
                                      + 2 * elByOmega(model, planetas[2])[1].N[1]
             IN  [validacao |-> IF ok THEN "ok" ELSE "falha",
                  status |-> IF ok THEN "braco-reto" ELSE "impossivel-1planeta-modulo"]
      ELSE [validacao |-> "ignorada", status |-> "braco-curvo"]

\* validacao and status of a path by the number of its planets
ClassifyPath(model, path, planetas) ==
  LET eS == elByOmega(model, path[1])
      eA == elByOmega(model, path[Len(path)])
  IN  IF Len(planetas) = 1 /\ ElNum(eS) /\ ElNum(elByOmega(model, planetas[1])) /\ ElNum(eA)
        THEN LET ok == eA[1].N[1] = eS[1].N[1] + 2 * elByOmega(model, planetas[1])[1].N[1]
             IN  [validacao |-> IF ok THEN "ok" ELSE "falha",
                  status |-> IF ok THEN "braco-reto" ELSE "impossivel-1planeta-modulo"]
      ELSE IF Len(planetas) = 2 /\ ElNum(eS) /\ ElNum(elByOmega(model, planetas[1]))
                /\ ElNum(elByOmega(model, planetas[2])) /\ ElNum(eA)
        THEN LET ok == eA[1].N[1] = eS[1].N[1] + 2 * elByOmega(model, planetas[1])[1].N[1]
                                      + 2 * elByOmega(model, planetas[2])[1].N[1]
             IN  [validacao |-> IF ok THEN "ok" ELSE "ignorada",
                  status |-> IF ok THEN "braco-reto" ELSE "braco-curvo"]
      ELSE [validacao |-> "ignorada", status |-> "braco-curvo"]

\* the entry pushed to detalhes for one path
PathInfo(model, carrier, path) ==
  LET internos == SubSeq(path, 2, Len(path) - 1)
      planetas == SelectSeq(internos,
                    LAMBDA w : elByOmega(model, w) # <<>> /\ elByOmega(model, w)[1].type = "planet")
      cl == ClassifyPath(model, path, planetas)
  IN  [carrier |-> carrier,
       caminho |-> path,
       nPlanetas |-> Len(planetas),
       validacao |-> cl.validacao,
       status |-> cl.status,
       Ns |-> ElN(elByOmega(model, path[1])),
       Nps |-> [k \in 1..Len(planetas) |-> ElN(elByOmega(model, planetas[k]))],
       Na |-> ElN(elByOmega(model, path[Len(path)]))]

\* for (const a of ann)
RECURSIVE PathsOverAnn(_, _, _, _, _)
PathsOverAnn(model, carrier, G, s, ann) ==
  IF ann = <<>> THEN <<>>
  ELSE LET a == Head(ann)
           path == IF a \in DOMAIN G THEN bfsPath(G, s, a) ELSE <<>>
       IN  (IF path = <<>> THEN <<>> ELSE <<PathInfo(model, carrier, path)>>)
             \o PathsOverAnn(model, carrier, G, s, Tail(ann))

\* for (const s of suns)
RECURSIVE PathsOverSuns(_, _, _, _, _)
PathsOverSuns(model, carrier, G, suns, ann) ==
  IF suns = <<>> THEN <<>>
  ELSE (IF Head(suns) \in DOMAIN G
          THEN PathsOverAnn(model, carrier, G, Head(suns), ann) ELSE <<>>)
         \o PathsOverSuns(model, carrier, G, Tail(suns), ann)

\* for (const [carrier, meshes] of meshesByCarrier.entries())
RECURSIVE PathsOverCarriers(_, _)
PathsOverCarriers(model, carriers) ==
  IF carriers = <<>> THEN <<>>
  ELSE PathsOverSuns(model, Head(carriers), GraphOf(MeshesOfCarrier(model, Head(carriers))),
                     OmegasOfType(model, "solar"), OmegasOfType(model, "annulus"))
         \o PathsOverCarriers(model, Tail(carriers))

\* a slip: a straight path outranks an impossible one
ResumoRetoPrimeiro(caminhos) ==
  IF \E k \in 1..Len(caminhos) : caminhos[k].status = "braco-reto" THEN "braco-reto"
  ELSE IF \E k \in 1..Len(caminhos) : caminhos[k].status = "impossivel-1planeta-modulo"
    THEN "impossivel-1planeta-modulo"
  ELSE "braco-curvo"

\* resumo from anyImpossivel and anyReto
Resumo(caminhos) ==
  IF \E k \in 1..Len(caminhos) : caminhos[k].status = "impossivel-1planeta-modulo"
    THEN "impossivel-1planeta-modulo"
  ELSE IF \E k \in 1..Len(caminhos) : caminhos[k].status = "braco-reto" THEN "braco-reto"
  ELSE "braco-curvo"

analisarTopologia(model) ==
  LET detalhes == PathsOverCarriers(model, MeshCarriers(model))
  IN  [called |-> TRUE, resumo |-> Resumo(detalhes), caminhos |-> detalhes]

----------------------------------------------------------------------------
(* phasing: computeArmAngles                                               *)
(* An angle is <<p, q>>, the fraction p/q of a turn (TAU) in lowest terms. *)

Turn(p, q) == LET g == Max1(GCD(Abs(p), q)) IN <<p \div g, q \div g>>

\* mod2pi of k ticks of TAU / Zeff
mod2pi(k, Zeff) == Turn(k % Zeff, Zeff)

\* Math.max(1, Math.min(5, Math.round(Nraw || 1))) of a whole Nraw
ClampCopies(Nraw) == IF Nraw < 1 THEN 1 ELSE IF Nraw > 5 THEN 5 ELSE Nraw

\* <<N, Zeff, m>> for which the double (TAU * m / N) / (TAU / Zeff) lies one
\* step below the half m * Zeff / N (12.499999999999998 for 25 / 2), listed
\* for Zeff up to 64
QuotientBelowHalf ==
  {<<2, 25, 1>>, <<2, 41, 1>>, <<2, 63, 1>>, <<4, 25, 2>>, <<4, 41, 2>>,
   <<4, 42, 3>>, <<4, 50, 1>>, <<4, 63, 2>>}

\* a slip: the quotient truncated where Math.round is meant
NumTicksFloor(m, N, Zeff) == (m * Zeff) \div N

\* Math.round(targetAngle / thetaHat): halves go up, on the double quotient
NumTicks(m, N, Zeff) ==
  IF Zeff > 64 THEN CHOOSE v \in {} : TRUE
  ELSE IF <<N, Zeff, m>> \in QuotientBelowHalf THEN (2 * m * Zeff + N) \div (2 * N) - 1
  ELSE (2 * m * Zeff + N) \div (2 * N)

\* Array.from({ length: N }, (_, i) => (TAU * i) / N)
EqualSpacing(N) == [i \in 1..N |-> Turn(i - 1, N)]

\* a slip: the single copy spaced like the others, from the first tick on
computeArmAnglesNoSingle(Nraw, zSun, zRing, planetsZ) ==
  LET N == ClampCopies(Nraw)
  IN  [i \in 1..N |-> Turn(i % N, N)]

computeArmAngles(Nraw, zSun, zRing, planetsZ) ==
  LET N == ClampCopies(Nraw)
  IN  IF N <= 1 THEN <<Turn(0, 1)>>
      ELSE IF zRing = <<>> \/ zSun = <<>> THEN EqualSpacing(N)
      ELSE LET k == Max1(Len(planetsZ))
               D == IF k % 2 # 0 THEN 1 ELSE -1
               Z_eff == Abs(zSun[1] + D * Abs(zRing[1]))
           IN  IF Z_eff = 0 THEN EqualSpacing(N)
               ELSE [i \in 1..N |-> mod2pi(NumTicks(i - 1, N, Z_eff), Z_eff)]

\* computeStagePhasing: N and copyAngles of the returned Out
CopyAnglesOf(inp) ==
  computeArmAngles(ClampCopies(inp.planetCopies), inp.solarZ, inp.annulusZ, inp.planetsZ)

----------------------------------------------------------------------------
(* phasing: computeStagePhasing                                            *)
(*                                                                         *)
(* A phase is <<n, t, d>>: n / d of a turn plus t / d times kappa radians, *)
(* kappa the double Math.cos(Math.PI / 2) = 6.123233995736766e-17.  The    *)
(* part in turns is computed exactly; the kappa part is what the doubles   *)
(* keep of a centre that the rotation to the base angle leaves a hair off  *)
(* the axis.  A coordinate is <<n, t>>: the whole number n, or t * kappa   *)
(* when n = 0 (a double n + t * kappa with n # 0 is n).                    *)

\* a slip: Math.floor where Math.round is meant
JsRoundFloor(x) == x[1] \div x[2]

\* Math.round of the fraction x[1] / x[2]
JsRound(x) == (2 * x[1] + x[2]) \div (2 * x[2])

\* a copy angle as a phase
PhaseOfTurn(a) == <<a[1], 0, a[2]>>

Half == <<1, 0, 2>>
Quarter == <<1, 0, 4>>
Eighth == <<1, 0, 8>>

\* the code's mod2pi on a phase: x = a % TAU, then x + TAU when x < 0.  A
\* negative x of at most 7.25 kappa (half an ulp of TAU) added to TAU is
\* TAU itself.
mod2piPhase(a) ==
  IF a[1] = 0
    THEN IF a[2] >= 0 THEN a
         ELSE IF 4 * (-a[2]) <= 29 * a[3] THEN One
         ELSE NAdd(a, One)
  ELSE IF a[1] % a[3] = 0 THEN Zero
  ELSE Norm(a[1] % a[3], a[2], a[3])

CAdd(p, q) == IF p[1] + q[1] # 0 THEN <<p[1] + q[1], 0>> ELSE <<0, p[2] + q[2]>>
CNeg(p) == <<-p[1], -p[2]>>
CSub(p, q) == CAdd(p, CNeg(q))

\* a product of two doubles of which one at least is a whole number
CMul(p, q) ==
  IF p[1] # 0 /\ q[1] # 0 THEN <<p[1] * q[1], 0>>
  ELSE IF p[1] # 0 THEN <<0, p[1] * q[2]>>
  ELSE IF q[1] # 0 THEN <<0, p[2] * q[1]>>
  ELSE IF p[2] = 0 \/ q[2] = 0 THEN <<0, 0>>
  ELSE CHOOSE v \in {} : TRUE

\* Math.cos(-baseAng) and Math.sin(-baseAng), baseAng = Math.atan2(y0, x0),
\* for a base centre on the positive x axis or on the y axis
CosSinB(p0) ==
  IF p0[2] = 0 /\ p0[1] > 0 THEN [cos |-> <<1, 0>>, sin |-> <<0, 0>>]
  ELSE IF p0[1] = 0 /\ p0[2] < 0 THEN [cos |-> <<0, 1>>, sin |-> <<1, 0>>]
  ELSE IF p0[1] = 0 /\ p0[2] > 0 THEN [cos |-> <<0, 1>>, sin |-> <<-1, 0>>]
  ELSE CHOOSE v \in {} : TRUE

\* [x * cosB - y * sinB, x * sinB + y * cosB]
NormPosition(pt, cs) ==
  <<CSub(CMul(<<pt[1], 0>>, cs.cos), CMul(<<pt[2], 0>>, cs.sin)),
    CAdd(CMul(<<pt[1], 0>>, cs.sin), CMul(<<pt[2], 0>>, cs.cos))>>

normPositions(positions) ==
  IF Len(positions) > 0
    THEN [k \in 1..Len(positions) |-> NormPosition(positions[k], CosSinB(positions[1]))]
    ELSE <<>>

CSign(p) == IF p[1] # 0 THEN (IF p[1] > 0 THEN 1 ELSE -1)
            ELSE IF p[2] > 0 THEN 1 ELSE IF p[2] < 0 THEN -1 ELSE 0

\* Math.atan2(dy, dx) on the axes, on the diagonals and a hair off the x axis
Atan2(dy, dx) ==
  IF CSign(dy) = 0 THEN (IF CSign(dx) < 0 THEN Half ELSE Zero)
  ELSE IF dy[1] = 0
    THEN IF dx[1] > 0 THEN Norm(0, dy[2], dx[1])
         ELSE IF dx[1] < 0 THEN (IF dy[2] > 0 THEN Half ELSE NNeg(Half))
         ELSE IF CSign(dx) = 0 THEN (IF dy[2] > 0 THEN Quarter ELSE NNeg(Quarter))
         ELSE CHOOSE v \in {} : TRUE
  ELSE IF dx[1] = 0 THEN (IF dy[1] > 0 THEN Quarter ELSE NNeg(Quarter))
  ELSE IF Abs(dy[1]) = Abs(dx[1])
    THEN NMul(Num(IF dy[1] > 0 THEN 1 ELSE -1), IF dx[1] > 0 THEN Eighth ELSE <<3, 0, 8>>)
  ELSE CHOOSE v \in {} : TRUE

\* betaAngles[k]
BetaAngle(positions, k) ==
  LET np == normPositions(positions) IN Atan2(np[k][2], np[k][1])

\* Math.max(1, Math.abs(z))
TeethOrOne(z) == Max1(Abs(z))

\* parity * (Math.PI / z)
ParityExtra(z) == IF z % 2 = 0 THEN <<1, 0, 2 * z>> ELSE Zero

\* the angle of the vector from the centre of planet k - 1 (the origin for
\* the first planet) to the centre of planet k
MeshAngle(positions, k) ==
  LET np == normPositions(positions)
      prevPos == IF k = 1 THEN <<(<<0, 0>>), (<<0, 0>>)>> ELSE np[k - 1]
  IN  Atan2(CSub(np[k][2], prevPos[2]), CSub(np[k][1], prevPos[1]))

\* phi_curr_abs = -phi_prev * gearRatio + (theta_i + meshAngle) * (1 + gearRatio) + extra
ForwardStep(phi_prev, theta, meshAngle, prevZ, currZ) ==
  NAdd(NAdd(NMul(NNeg(phi_prev), <<prevZ, 0, currZ>>),
            NMul(NAdd(theta, meshAngle), <<currZ + prevZ, 0, currZ>>)),
       ParityExtra(currZ))

\* absPhases[k][m] after the forward loop (k from 1, theta the copy's angle)
RECURSIVE ForwardPhase(_, _, _)
ForwardPhase(inp, k, theta) ==
  ForwardStep(IF k = 1 THEN Zero ELSE ForwardPhase(inp, k - 1, theta),
              theta,
              MeshAngle(inp.positions, k),
              IF k = 1 THEN (IF inp.solarZ = <<>> THEN 0 ELSE inp.solarZ[1])
                       ELSE TeethOrOne(inp.planetsZ[k - 1]),
              TeethOrOne(inp.planetsZ[k]))

\* ringPhase (<<>>: undefined)
RingPhase(inp) ==
  IF inp.annulusZ # <<>> /\ Len(inp.planetsZ) >= 1 /\ Abs(inp.annulusZ[1]) > 0
    THEN LET Za == Abs(inp.annulusZ[1])
             idxCoupled == Len(inp.planetsZ)
             Zref == Abs(inp.planetsZ[idxCoupled])
             phiRef == ForwardPhase(inp, idxCoupled, Zero)
             betaLast == BetaAngle(inp.positions, idxCoupled)
         IN  <<mod2piPhase(NAdd(NMul(phiRef, <<Zref, 0, Za>>),
                                NMul(betaLast, <<Za - Zref, 0, Za>>)))>>
    ELSE <<>>

\* the special case: no sun, a ring and a ring phase
RingAnchored(inp) == inp.solarZ = <<>> /\ RingPhase(inp) # <<>>

\* a slip: the parity offset of planet k where that of planet k + 1 is meant
BackwardStepOwnParity(phi_next, theta, meshAngle, Zk, Znext) ==
  NDiv(NSub(NAdd(NMul(NAdd(theta, meshAngle), <<Znext + Zk, 0, Znext>>), ParityExtra(Zk)),
            phi_next),
       <<Zk, 0, Znext>>)

\* phi_curr = ((theta_i + meshAngle) * (1 + gearRatio) + extraNext - phi_next) / gearRatio
BackwardStep(phi_next, theta, meshAngle, Zk, Znext) ==
  NDiv(NSub(NAdd(NMul(NAdd(theta, meshAngle), <<Znext + Zk, 0, Znext>>), ParityExtra(Znext)),
            phi_next),
       <<Zk, 0, Znext>>)

\* absPhases[k][m] after the re-anchoring on the ring and the propagation back
RECURSIVE BackwardPhase(_, _, _)
BackwardPhase(inp, k, theta) ==
  IF k = Len(inp.planetsZ)
    THEN LET Za == Abs(inp.annulusZ[1])
             Zc == TeethOrOne(inp.planetsZ[k])
             betaCopy == mod2piPhase(NAdd(BetaAngle(inp.positions, k), theta))
         IN  NAdd(NMul(RingPhase(inp)[1], <<Za, 0, Zc>>), NMul(betaCopy, <<Zc - Za, 0, Zc>>))
    ELSE BackwardStep(BackwardPhase(inp, k + 1, theta), theta, MeshAngle(inp.positions, k + 1),
                      TeethOrOne(inp.planetsZ[k]), TeethOrOne(inp.planetsZ[k + 1]))

\* absPhases[k][m] at the end
AbsPhase(inp, k, theta) ==
  IF RingAnchored(inp) THEN BackwardPhase(inp, k, theta) ELSE ForwardPhase(inp, k, theta)

\* <<solarZ, annulusZ, planetsZ, positions, k, theta>> for which the double
\* phi of planet k at copy angle theta is a multiple of TAU where the
\* phase in turns and kappa lies a hair below it (mod2pi gives 0.0), and
\* for which the double lies a hair below a multiple of TAU that the phase
\* in turns hits (x + TAU is TAU); listed for the inputs of PhasingInputs
\* with chains of up to four planets
DoubleOnMultiple ==
  {<<(<<>>), (<<4>>), (<<2>>), (<<(<<0, -1>>)>>), 1, Quarter>>}

DoubleBelowMultiple ==
  {<<(<<>>), (<<-6>>), (<<2, 2, 2, 1>>), (<<(<<1, 0>>), (<<1, 1>>), (<<2, 2>>), (<<3, 3>>)>>), 3, Zero>>}

\* planetPhases[k][m] = mod2pi(absPhases[k][m]), theta the angle of copy m
PlanetPhase(inp, k, theta) ==
  LET at == <<inp.solarZ, inp.annulusZ, inp.planetsZ, inp.positions, k, theta>>
  IN  IF at \in DoubleOnMultiple THEN Zero
      ELSE IF at \in DoubleBelowMultiple THEN One
      ELSE mod2piPhase(AbsPhase(inp, k, theta))

\* `omega_p${stageId}_${k}#copy${m}`
CopyKey(sid, k, m) == omegaP(sid, k) \o "#copy" \o ToString(m)

\* a slip: the ring's phase stored once per copy
RingKeysPerCopy(inp, N) ==
  IF RingPhase(inp) # <<>> THEN {omegaA(inp.stageId) \o "#copy" \o ToString(m) : m \in 0..(N - 1)}
  ELSE {}

RingKeys(inp, N) == IF RingPhase(inp) # <<>> THEN {omegaA(inp.stageId)} ELSE {}

\* gearPhaseMap
GearPhaseMap(inp, N, copyAngles) ==
  LET P == Len(inp.planetsZ)
      planetKeys == {CopyKey(inp.stageId, k, m) : <<k, m>> \in (1..P) \X (0..(N - 1))}
      sunKeys == IF inp.solarZ # <<>> THEN {omegaS(inp.stageId)} ELSE {}
      ringKeys == RingKeys(inp, N)
  IN  [key \in planetKeys \cup sunKeys \cup ringKeys |->
         IF key \in sunKeys THEN Zero
         ELSE IF key \in ringKeys THEN RingPhase(inp)[1]
         ELSE LET km == CHOOSE x \in (1..P) \X (0..(N - 1)) : CopyKey(inp.stageId, x[1], x[2]) = key
              IN  PlanetPhase(inp, km[1], PhaseOfTurn(copyAngles[km[2] + 1]))]

\* planetPhases[k]
PlanetPhases(inp, k, copyAngles) ==
  [m \in 1..Len(copyAngles) |-> PlanetPhase(inp, k, PhaseOfTurn(copyAngles[m]))]

\* the Out of computeStagePhasing; a planet without a centre in positions
\* makes the forward loop read currPos[0] of undefined
computeStagePhasing(inp) ==
  LET N == ClampCopies(JsRound(inp.copies))
      copyAngles == computeArmAngles(N, inp.solarZ, inp.annulusZ, inp.planetsZ)
  IN  IF Len(inp.positions) < Len(inp.planetsZ)
        THEN [called |-> TRUE, raised |-> TRUE]
        ELSE [called |-> TRUE,
              raised |-> FALSE,
              copyAngles |-> copyAngles,
              planetOriginal |-> IF Len(inp.planetsZ) >= 1
                                   THEN PlanetPhases(inp, 1, copyAngles) ELSE <<>>,
              planetCoupled |-> IF Len(inp.planetsZ) >= 2
                                  THEN <<PlanetPhases(inp, 2, copyAngles)>> ELSE <<>>,
              sunPhase |-> IF inp.solarZ # <<>> THEN <<Zero>> ELSE <<>>,
              ringPhase |-> RingPhase(inp),
              gearPhaseMap |-> GearPhaseMap(inp, N, copyAngles)]

----------------------------------------------------------------------------
(* The models solved, and the edits that extend them.                      *)

\* the largest number of constraints an edit may bring a model to
MaxConstraints == 2

Speed(v, x) == [var |-> v, value |-> x]
Coupling(a, b) == [a |-> a, b |-> b]
RatioUI(num, den) == [entrada |-> num, saida |-> den]
Ratio(id, num, den) == [id |-> id, num |-> num, den |-> den]

\* delta, a speed of 1e-10 rpm
Tiny == <<0, 1, 1>>
KnownValues == {Num(0), Num(10), Tiny}

\* one-planet stage: sun 20, planet 20, ring 60
StageA == [id |-> 1, solarZ |-> <<20>>, planetsZ |-> <<20>>, annulusZ |-> <<60>>]
\* open stage: sun 2 and planet 1, no ring
StageB == [id |-> 1, solarZ |-> <<2>>, planetsZ |-> <<1>>, annulusZ |-> <<>>]
\* a lone planet on its carrier: no mesh at all
StageD == [id |-> 1, solarZ |-> <<>>, planetsZ |-> <<3>>, annulusZ |-> <<>>]
\* a second stage, again a lone planet
StageE == [id |-> 2, solarZ |-> <<>>, planetsZ |-> <<3>>, annulusZ |-> <<>>]

\* sun 20 at 10 rpm, ring 60 locked at 0 rpm, carrier unknown
ModelA ==
  buildModelFromUI(<<StageA>>,
                   <<Speed("omega_s1", Num(10)), Speed("omega_a1", Num(0))>>,
                   <<>>, RatioUI("omega_s1", "omega_b1"))

ModelB ==
  [buildModelFromUI(<<StageB>>, <<>>, <<>>, RatioUI("omega_s1", "omega_p1_1"))
     EXCEPT !.ratios = @ \o <<Ratio("r2", "omega_p1_1", "omega_b1"),
                              Ratio("r3", "omega_s1", "omega_a1")>>]

ModelD == buildModelFromUI(<<StageD>>, <<>>, <<>>, RatioUI("omega_b1", "omega_p1_1"))

\* two stages, one mesh, no constraint
ModelBE == buildModelFromUI(<<StageB, StageE>>, <<>>, <<>>, RatioUI("omega_s1", "omega_p2_1"))

\* two stages coupled carrier to carrier and planet to planet, two speeds
ModelBEc ==
  buildModelFromUI(<<StageB, StageE>>,
                   <<Speed("omega_s1", Num(10)), Speed("omega_b1", Num(0))>>,
                   <<Coupling("omega_b1", "omega_b2"), Coupling("omega_p1_1", "omega_p2_1")>>,
                   RatioUI("omega_s1", "omega_p2_1"))

\* a speed left on the ring of a stage that has no ring any more
ModelStale ==
  buildModelFromUI(<<StageB>>,
                   <<Speed("omega_s1", Num(10)), Speed("omega_b1", Num(0)),
                     Speed("omega_a1", Num(10))>>,
                   <<>>, RatioUI("omega_s1", "omega_a1"))

\* the sun and planet stage with sun, carrier and planet all given,
\* consistently: one row more than variables
ModelBOver ==
  buildModelFromUI(<<StageB>>,
                   <<Speed("omega_s1", Num(10)), Speed("omega_b1", Num(0)),
                     Speed("omega_p1_1", Num(-20))>>,
                   <<>>, RatioUI("omega_s1", "omega_b1"))

\* a single gear and nothing else
ModelS ==
  [elements |-> <<[id |-> "sol1", type |-> "solar", N |-> <<2>>, omega |-> "omega_s1"]>>,
   meshes |-> <<>>,
   constraints |-> <<>>,
   ratios |-> <<Ratio("r1", "omega_s1", "omega_s1")>>,
   carriers |-> <<>>]

\* the single gear locked and given two speeds: three rows on one variable
ModelS3 ==
  [ModelS EXCEPT !.constraints =
     <<Lock("omega_s1"), Known("omega_s1", Num(0)), Known("omega_s1", Num(10))>>]

\* a mesh whose second gear is a variable no element carries
ModelDangling ==
  [ModelD EXCEPT !.meshes =
     <<[i |-> "omega_p1_1", j |-> "omega_a1", carrier |-> "omega_b1", type |-> "internal"]>>]

\* a mesh whose first gear is the carrier, an element without tooth count
ModelNoTeeth ==
  [ModelD EXCEPT !.meshes =
     <<[i |-> "omega_b1", j |-> "omega_p1_1", carrier |-> "omega_b1", type |-> "external"]>>]

\* the one-stage models and the models without carrier
BaseModels ==
  {ModelBOver, ModelA, ModelB, ModelD, ModelStale, ModelS, ModelS3,
   ModelDangling, ModelNoTeeth}

\* the two-stage models
MultiStageModels == {ModelBE, ModelBEc}

\* a coupling between two variables of a stage that is not in the model
StaleA == "omega_b9"
StaleB == "omega_p9_1"

\* model and result are the solver's input and what it returned; stage is
\* the stage handed to the assembly validator and to the phasing, montagem,
\* topologia and phasing are what validarMontagem, analisarTopologia and
\* computeStagePhasing returned
VARIABLES model, result, stage, montagem, topologia, phasing, ui
vars == <<model, result, stage, montagem, topologia, phasing, ui>>

\* a function that has not been called
NotCalled == [called |-> FALSE]

\* no editor is open while the functions are exercised on their own
NoEditor == <<>>

\* no stage is being validated while the solver is exercised
SolverOnly ==
  /\ stage = <<>>
  /\ montagem = NotCalled
  /\ topologia = NotCalled
  /\ phasing = NotCalled
  /\ ui = NoEditor

Init ==
  /\ model \in BaseModels
  /\ result = solveGearSystem(model)
  /\ SolverOnly

\* an edit appends one constraint and the model is solved again
AddConstraint(c) ==
  /\ Len(model.constraints) < MaxConstraints
  /\ model' = [model EXCEPT !.constraints = Append(@, c)]
  /\ result' = solveGearSystem(model')
  /\ UNCHANGED <<stage, montagem, topologia, phasing, ui>>

AddKnown ==
  \E k \in 1..Len(VList(model)), x \in KnownValues :
    AddConstraint(Known(VList(model)[k], x))

AddEqual ==
  \E k, h \in 1..Len(VList(model)) :
    k < h /\ AddConstraint(Equal(VList(model)[k], VList(model)[h]))

AddLock == \E k \in 1..Len(VList(model)) : AddConstraint(Lock(VList(model)[k]))

AddStaleEqual == AddConstraint(Equal(StaleA, StaleB))

Next == AddKnown \/ AddEqual \/ AddLock \/ AddStaleEqual

Spec == Init /\ [][Next]_vars

\* the same edits, from the two-stage models
InitMultiStage ==
  /\ model \in MultiStageModels
  /\ result = solveGearSystem(model)
  /\ SolverOnly

SpecMultiStage == InitMultiStage /\ [][Next]_vars

----------------------------------------------------------------------------
(* One stage handed to the validator, the topology analysis and the        *)
(* phasing.                                                                *)

\* the longest planet chain of a stage
MaxPlanets == 3

SolarTeeth == {<<>>, <<2>>, <<20>>}
PlanetTeeth == {1, 10}
AnnulusTeeth == {<<>>, <<1>>, <<2>>, <<3>>, <<4>>, <<5>>, <<6>>, <<8>>, <<20>>, <<30>>, <<31>>, <<-4>>}
CopyCounts == 0..6

PlanetChains == UNION {[1..n -> PlanetTeeth] : n \in 0..MaxPlanets}

StageInputs ==
  [id : {1}, solarZ : SolarTeeth, planetsZ : PlanetChains, annulusZ : AnnulusTeeth,
   planetCopies : CopyCounts]

InitStage ==
  /\ stage \in StageInputs
  /\ model = buildModelFromUI(<<stage>>, <<>>, <<>>, RatioUI("", ""))
  /\ result = NotCalled
  /\ montagem = NotCalled
  /\ topologia = NotCalled
  /\ phasing = NotCalled
  /\ ui = NoEditor

ValidateStage ==
  /\ ~montagem.called
  /\ montagem' = validarMontagem(stage.solarZ, stage.planetsZ, stage.annulusZ, stage.planetCopies)
  /\ UNCHANGED <<model, result, stage, topologia, phasing, ui>>

AnalyzeTopology ==
  /\ ~topologia.called
  /\ topologia' = analisarTopologia(model)
  /\ UNCHANGED <<model, result, stage, montagem, phasing, ui>>

ComputePhasing ==
  /\ ~phasing.called
  /\ phasing' = [called |-> TRUE, copyAngles |-> CopyAnglesOf(stage)]
  /\ UNCHANGED <<model, result, stage, montagem, topologia, ui>>

NextStage == ValidateStage \/ AnalyzeTopology \/ ComputePhasing

SpecStage == InitStage /\ [][NextStage]_vars

----------------------------------------------------------------------------
(* One stage and the centres of its base arm handed to the phasing.        *)

PhasingSolar == {<<>>, <<2>>, <<20>>}
PhasingAnnulus == {<<>>, <<0>>, <<4>>, <<-6>>}
PhasingPlanetTeeth == {1, 2}

\* requested copies: 0, -1, 0.5, 1.5, 2.5, 3.5, 5.5 and 7
CopyRequests == {<<0, 1>>, <<-1, 1>>, <<1, 2>>, <<3, 2>>, <<5, 2>>, <<7, 2>>, <<11, 2>>, <<7, 1>>}

\* the centre of planet k on a straight arm along x and on an arm that
\* turns onto the diagonal after the first planet
ArmX(k) == <<k, 0>>
ArmBent(k) == IF k = 1 THEN <<1, 0>> ELSE <<k - 1, k - 1>>

\* a lone planet straight below the centre
ArmDown == <<(<<0, -1>>)>>

\* the positions lists for a chain of P planets (the empty list: no centres given)
ArmsOf(P) ==
  {[k \in 1..P |-> ArmX(k)], [k \in 1..P |-> ArmBent(k)], <<>>}
    \cup (IF P = 1 THEN {ArmDown} ELSE {})

PhasingChains == UNION {[1..n -> PhasingPlanetTeeth] : n \in 0..MaxPlanets}

PhasingInputs ==
  UNION {[stageId : {1}, solarZ : PhasingSolar, planetsZ : {ch}, annulusZ : PhasingAnnulus,
          copies : CopyRequests, positions : ArmsOf(Len(ch))] : ch \in PhasingChains}

InitPhasing ==
  /\ stage \in PhasingInputs
  /\ model = <<>>
  /\ result = NotCalled
  /\ montagem = NotCalled
  /\ topologia = NotCalled
  /\ phasing = NotCalled
  /\ ui = NoEditor

ComputeStagePhasing ==
  /\ ~phasing.called
  /\ phasing' = computeStagePhasing(stage)
  /\ UNCHANGED <<model, result, stage, montagem, topologia, ui>>

NextPhasing == ComputeStagePhasing

SpecPhasing == InitPhasing /\ [][NextPhasing]_vars

----------------------------------------------------------------------------
(* The four functions called on one model and one stage, in any order.     *)

\* the stages handed over: a stage of the editor with the centres of its
\* base arm (planetCopies as GearScene passes it on as copies)
CallStages ==
  {[id |-> q.stageId, stageId |-> q.stageId, solarZ |-> q.solarZ, planetsZ |-> q.planetsZ,
    annulusZ |-> q.annulusZ, planetCopies |-> ClampCopies(JsRound(q.copies)),
    copies |-> q.copies, positions |-> q.positions] :
     q \in {r \in PhasingInputs : /\ r.copies = <<3, 2>>
                                  /\ r.annulusZ \in {<<>>, <<4>>}
                                  /\ r.solarZ \in {<<>>, <<2>>}
                                  /\ Len(r.planetsZ) <= 2}}

\* the model after solveGearSystem: the rows are new arrays filled from the
\* model, rankOf eliminates on M.map(r => [...r]) and solveGaussian on
\* row.concat([b[i]]); no field of the model is assigned
ModelAfterSolve(m) == m

\* the model after analisarTopologia: the graph and the paths are new maps
\* and arrays (meshesByCarrier holds the meshes, path.reverse() turns the
\* new path); no field of the model is assigned
ModelAfterAnalysis(m) == m

\* the tooth counts after validarMontagem, which only reads them
TeethAfterValidation(Np) == Np

\* a slip: the rotated centres written over the input (kappa parts lost)
PositionsNormalisedInPlace(inp) ==
  [k \in 1..Len(inp.positions) |->
     <<normPositions(inp.positions)[k][1][1], normPositions(inp.positions)[k][2][1]>>]

\* the positions list after computeStagePhasing: normPositions is the input
\* list itself or the new array of positions.map; neither is written
PositionsAfterPhasing(inp) == inp.positions

InitCalls ==
  /\ model \in BaseModels
  /\ stage \in CallStages
  /\ result = NotCalled
  /\ montagem = NotCalled
  /\ topologia = NotCalled
  /\ phasing = NotCalled
  /\ ui = NoEditor

CallSolve ==
  /\ ~result.called
  /\ result' = [called |-> TRUE, out |-> solveGearSystem(model)]
  /\ model' = ModelAfterSolve(model)
  /\ UNCHANGED <<stage, montagem, topologia, phasing, ui>>

CallAnalyze ==
  /\ ~topologia.called
  /\ topologia' = analisarTopologia(model)
  /\ model' = ModelAfterAnalysis(model)
  /\ UNCHANGED <<result, stage, montagem, phasing, ui>>

CallValidate ==
  /\ ~montagem.called
  /\ montagem' = validarMontagem(stage.solarZ, stage.planetsZ, stage.annulusZ, stage.planetCopies)
  /\ stage' = [stage EXCEPT !.planetsZ = TeethAfterValidation(@)]
  /\ UNCHANGED <<model, result, topologia, phasing, ui>>

CallPhasing ==
  /\ ~phasing.called
  /\ phasing' = computeStagePhasing(stage)
  /\ stage' = [stage EXCEPT !.positions = PositionsAfterPhasing(stage)]
  /\ UNCHANGED <<model, result, montagem, topologia, ui>>

NextCalls == CallSolve \/ CallAnalyze \/ CallValidate \/ CallPhasing

SpecCalls == InitCalls /\ [][NextCalls]_vars

----------------------------------------------------------------------------
(* The stage editor: each handler of StageEditor.tsx together with the     *)
(* effects its state change sets off (the coupling rows, the validation    *)
(* and the recomputation).                                                 *)

\* the most stages and the longest chain the editor is taken to
MaxStages == 2
MaxChain == 2

\* a ?? b
OrElse(a, b) == IF a # <<>> THEN a ELSE b

\* useState of stages, speeds, ratio and couplings
DefaultStage ==
  [id |-> 1, solarZ |-> <<40>>, planetsZ |-> <<20>>, annulusZ |-> <<80>>,
   lastSolarZ |-> <<>>, lastAnnulusZ |-> <<>>, planetCopies |-> 3]

DefaultSpeeds ==
  <<[var |-> "omega_s1", value |-> Num(10)], [var |-> "omega_a1", value |-> Num(-2)]>>

DefaultRatio == RatioUI("omega_s1", "omega_a1")

\* a coupling row with nothing chosen
EmptyCoupling == [a |-> "", b |-> ""]

\* the default stage after 4, 2 and 8 were typed into its three tooth
\* fields (the fields' onChange sets the one tooth count)
TypedStage == [DefaultStage EXCEPT !.solarZ = <<4>>, !.planetsZ = <<2>>, !.annulusZ = <<8>>]

\* xs.map(s => s.id !== stageId ? s : ns)
WithStage(xs, sid, ns) == [k \in 1..Len(xs) |-> IF xs[k].id = sid THEN ns ELSE xs[k]]

addPlanetStage(s) ==
  LET newP == IF Len(s.planetsZ) > 0 THEN s.planetsZ[Len(s.planetsZ)] ELSE 12
      newPlanets == Append(s.planetsZ, newP)
  IN  IF Len(s.planetsZ) = 1
        THEN LET Ns == OrElse(OrElse(s.solarZ, s.lastSolarZ), <<0>>)[1]
                 NaAuto == Ns + 2 * (s.planetsZ[1] + newP)
             IN  [s EXCEPT !.planetsZ = newPlanets, !.annulusZ = <<NaAuto>>,
                           !.lastAnnulusZ = <<NaAuto>>]
        ELSE [s EXCEPT !.planetsZ = newPlanets]

\* removePlanet's mutation of the stage; idx counts from 1 here
removePlanetStage(s, idx) ==
  LET newPlanets == [j \in 1..(Len(s.planetsZ) - 1) |->
                       IF j < idx THEN s.planetsZ[j] ELSE s.planetsZ[j + 1]]
      Ns == OrElse(s.solarZ, s.lastSolarZ)
  IN  IF Len(newPlanets) = 0 \/ s.annulusZ = <<>> \/ Ns = <<>>
        THEN [s EXCEPT !.planetsZ = newPlanets]
        ELSE LET maxNa == Ns[1] + 2 * SumSeq(newPlanets)
                 status == validarMontagem(Ns, newPlanets, s.annulusZ, s.planetCopies)
             IN  IF ~status.valido
                   THEN [s EXCEPT !.planetsZ = newPlanets, !.annulusZ = <<maxNa>>,
                                 !.lastAnnulusZ = <<maxNa>>]
                   ELSE [s EXCEPT !.planetsZ = newPlanets]

removeSolarStage(s) ==
  [s EXCEPT !.lastSolarZ = OrElse(OrElse(s.solarZ, s.lastSolarZ), <<20>>), !.solarZ = <<>>]

restoreSolarStage(s) == [s EXCEPT !.solarZ = OrElse(s.lastSolarZ, <<20>>)]

removeAnnulusStage(s) ==
  [s EXCEPT !.lastAnnulusZ = OrElse(OrElse(s.annulusZ, s.lastAnnulusZ), <<60>>),
            !.annulusZ = <<>>]

restoreAnnulusStage(s) == [s EXCEPT !.annulusZ = OrElse(s.lastAnnulusZ, <<60>>)]

\* the stage addStage appends: a copy of the last one under the next id
newStage(xs) ==
  LET last == xs[Len(xs)]
  IN  [id |-> last.id + 1,
       solarZ |-> last.solarZ,
       planetsZ |-> last.planetsZ,
       annulusZ |-> last.annulusZ,
       lastSolarZ |-> OrElse(last.lastSolarZ, last.solarZ),
       lastAnnulusZ |-> OrElse(last.lastAnnulusZ, last.annulusZ),
       planetCopies |-> last.planetCopies]

clearSpeedVar(speeds, omegaId) ==
  [k \in 1..Len(speeds) |->
     IF speeds[k].var = omegaId THEN [speeds[k] EXCEPT !.var = ""] ELSE speeds[k]]

\* setRatio of removeSolar and removeAnnulus
ClearRatio(ratio, omegaId) ==
  [entrada |-> IF ratio.entrada = omegaId THEN "" ELSE ratio.entrada,
   saida |-> IF ratio.saida = omegaId THEN "" ELSE ratio.saida]

\* setCouplings of removeSolar and removeAnnulus
DropCouplingsOf(couplings, omegaId) ==
  SelectSeq(couplings, LAMBDA c : c.a # omegaId /\ c.b # omegaId)

\* omega.includes of the four prefixes; with stage ids below 10 a name
\* holds the prefix of stage sid only when it is a name of stage sid
belongsToStage(omega, sid) ==
  omega \in {omegaS(sid), omegaA(sid), omegaB(sid)} \cup {omegaP(sid, k) : k \in 1..9}

\* setCouplings of removeStage
DropCouplingsOfStage(couplings, sid) ==
  SelectSeq(couplings, LAMBDA c : /\ c.a # "" /\ ~belongsToStage(c.a, sid)
                                  /\ c.b # "" /\ ~belongsToStage(c.b, sid))

\* the effect on stages.length: two empty rows with two stages or more,
\* no row with one stage
CouplingRows(xs, couplings) ==
  IF Len(xs) > 1 /\ Len(couplings) = 0 THEN <<EmptyCoupling, EmptyCoupling>>
  ELSE IF Len(xs) <= 1 /\ Len(couplings) > 0 THEN <<>>
  ELSE couplings

\* the first stage validarMontagem refuses, 0 when there is none
FirstInvalid(xs) ==
  LET bad == {k \in 1..Len(xs) :
                ~validarMontagem(xs[k].solarZ, xs[k].planetsZ, xs[k].annulusZ,
                                 xs[k].planetCopies).valido}
  IN  IF bad = {} THEN 0 ELSE CHOOSE k \in bad : \A h \in bad : k <= h

\* statusPorStage as setMontagem receives it: the stages up to the first
\* one refused
StatusPorStage(xs) ==
  LET upTo == IF FirstInvalid(xs) = 0 THEN Len(xs) ELSE FirstInvalid(xs)
  IN  [k \in 1..upTo |->
         validarMontagem(xs[k].solarZ, xs[k].planetsZ, xs[k].annulusZ, xs[k].planetCopies)]

\* the messages
NoMessage == <<>>
MontagemMessage(xs) == <<"planetary", xs[FirstInvalid(xs)].id>>
UnderMessage(r) == <<"underdetermined", IF r.missingConstraints < 1 THEN 1 ELSE r.missingConstraints>>
OverMessage(r) ==
  <<"overdetermined", IF r.conflictingConstraints < 1 THEN 1 ELSE r.conflictingConstraints>>

\* a slip: the velocities of an under-determined system stored
StoredResultAlways(r, ratio) ==
  IF r.kind = "raised" THEN <<>>
  ELSE <<[velocities |-> r.velocities,
          ratios |-> IF ratio.entrada # "" /\ ratio.saida # "" THEN r.ratios ELSE <<>>]>>

\* what setResult receives for the solver's return r (<<>>: null)
StoredResult(r, ratio) ==
  IF r.kind = "solved"
    THEN <<[velocities |-> r.velocities,
            ratios |-> IF ratio.entrada # "" /\ ratio.saida # "" THEN r.ratios ELSE <<>>]>>
    ELSE <<>>

\* the end of the recomputation effect: edited is what the handler and the
\* validation set, r is what the solver returned
Solved(edited, r) ==
  edited @@
  [solver |-> [called |-> TRUE, out |-> r],
   error |-> IF r.kind = "raised" THEN <<r.error>>
             ELSE IF r.kind = "underdetermined" THEN UnderMessage(r)
             ELSE IF r.kind = "overdetermined" THEN OverMessage(r)
             ELSE NoMessage,
   underdeterminedMessage |->
     IF r.kind = "underdetermined" THEN UnderMessage(r) ELSE NoMessage,
   overdeterminedMessage |->
     IF r.kind = "overdetermined" THEN OverMessage(r) ELSE NoMessage,
   result |-> StoredResult(r, edited.ratio)]

\* the end of the effect when a stage is refused: the solver is not called
Refused(edited) ==
  edited @@
  [solver |-> NotCalled,
   error |-> MontagemMessage(edited.stages),
   underdeterminedMessage |-> NoMessage,
   overdeterminedMessage |-> NoMessage,
   result |-> <<>>]

\* the editor after the recomputation effect: the validation of every
\* stage, then the model and the solver, then the messages and the result
Recompute(xs, speeds, couplings, ratio) ==
  LET edited == [stages |-> xs, speeds |-> speeds, couplings |-> couplings, ratio |-> ratio,
                 montagem |-> StatusPorStage(xs)]
  IN  IF FirstInvalid(xs) # 0
        THEN Refused(edited)
        ELSE Solved(edited, solveGearSystem(buildModelFromUI(xs, speeds, couplings, ratio)))

FunctionsIdle ==
  /\ model = <<>>
  /\ result = NotCalled
  /\ stage = <<>>
  /\ montagem = NotCalled
  /\ topologia = NotCalled
  /\ phasing = NotCalled

InitEditor ==
  /\ ui = Recompute(<<TypedStage>>, DefaultSpeeds, <<>>, DefaultRatio)
  /\ FunctionsIdle

Idle == UNCHANGED <<model, result, stage, montagem, topologia, phasing>>

\* the places in the list of the stages whose fields and buttons are used:
\* the first stage (the stages after it are the copies addStage made)
EditedStages == {1}

addStage ==
  /\ Len(ui.stages) < MaxStages
  /\ ui.stages[Len(ui.stages)].id <= MaxStages
  /\ LET xs == Append(ui.stages, newStage(ui.stages))
     IN  ui' = Recompute(xs, ui.speeds, CouplingRows(xs, ui.couplings), ui.ratio)
  /\ Idle

removeStage ==
  \E k \in 1..Len(ui.stages) :
    /\ Len(ui.stages) # 1
    /\ LET sid == ui.stages[k].id
           xs == SelectSeq(ui.stages, LAMBDA s : s.id # sid)
       IN  ui' = Recompute(xs, ui.speeds,
                           CouplingRows(xs, DropCouplingsOfStage(ui.couplings, sid)), ui.ratio)
    /\ Idle

addPlanet ==
  \E k \in EditedStages :
    /\ Len(ui.stages[k].planetsZ) < MaxChain
    /\ ui' = Recompute(WithStage(ui.stages, ui.stages[k].id, addPlanetStage(ui.stages[k])),
                       ui.speeds, ui.couplings, ui.ratio)
    /\ Idle

\* the remove button of a planet is offered on chains of two or more
removePlanet ==
  \E k \in EditedStages : \E idx \in 1..Len(ui.stages[k].planetsZ) :
    /\ Len(ui.stages[k].planetsZ) >= 2
    /\ ui' = Recompute(WithStage(ui.stages, ui.stages[k].id,
                                 removePlanetStage(ui.stages[k], idx)),
                       ui.speeds, ui.couplings, ui.ratio)
    /\ Idle

removeSolar ==
  \E k \in EditedStages :
    /\ ui.stages[k].solarZ # <<>>
    /\ LET sid == ui.stages[k].id
       IN  ui' = Recompute(WithStage(ui.stages, sid, removeSolarStage(ui.stages[k])),
                           clearSpeedVar(ui.speeds, omegaS(sid)),
                           DropCouplingsOf(ui.couplings, omegaS(sid)),
                           ClearRatio(ui.ratio, omegaS(sid)))
    /\ Idle

restoreSolar ==
  \E k \in EditedStages :
    /\ ui.stages[k].solarZ = <<>>
    /\ ui' = Recompute(WithStage(ui.stages, ui.stages[k].id, restoreSolarStage(ui.stages[k])),
                       ui.speeds, ui.couplings, ui.ratio)
    /\ Idle

removeAnnulus ==
  \E k \in EditedStages :
    /\ ui.stages[k].annulusZ # <<>>
    /\ LET sid == ui.stages[k].id
       IN  ui' = Recompute(WithStage(ui.stages, sid, removeAnnulusStage(ui.stages[k])),
                           clearSpeedVar(ui.speeds, omegaA(sid)),
                           DropCouplingsOf(ui.couplings, omegaA(sid)),
                           ClearRatio(ui.ratio, omegaA(sid)))
    /\ Idle

restoreAnnulus ==
  \E k \in EditedStages :
    /\ ui.stages[k].annulusZ = <<>>
    /\ ui' = Recompute(WithStage(ui.stages, ui.stages[k].id, restoreAnnulusStage(ui.stages[k])),
                       ui.speeds, ui.couplings, ui.ratio)
    /\ Idle

\* the ids buildOmegaOptions offers in the selects
omegaOptions(xs) ==
  UNION {(IF xs[k].solarZ # <<>> THEN {omegaS(xs[k].id)} ELSE {})
           \cup {omegaB(xs[k].id)}
           \cup (IF xs[k].annulusZ # <<>> THEN {omegaA(xs[k].id)} ELSE {})
           \cup {omegaP(xs[k].id, j) : j \in 1..Len(xs[k].planetsZ)} : k \in 1..Len(xs)}

\* the option picked in the select of a known speed
ChosenOmegas == {"omega_s1"}

handleSpeedVarChange ==
  \E index \in 1..Len(ui.speeds) : \E val \in ChosenOmegas \cap omegaOptions(ui.stages) :
    /\ ui.speeds[index].var # val
    /\ ui' = Recompute(ui.stages,
                       [i \in 1..Len(ui.speeds) |->
                          IF i = index THEN [ui.speeds[i] EXCEPT !.var = val] ELSE ui.speeds[i]],
                       ui.couplings, ui.ratio)
    /\ Idle

NextEditor ==
  \/ addStage \/ removeStage \/ addPlanet \/ removePlanet
  \/ removeSolar \/ restoreSolar \/ removeAnnulus \/ restoreAnnulus
  \/ handleSpeedVarChange

SpecEditor == InitEditor /\ [][NextEditor]_vars

----------------------------------------------------------------------------
(* removePlanet on one stage with a ring, whatever was typed into its      *)
(* fields, and the validation that follows.                                *)

\* the stages with a ring and a chain of two planets or more: the sun
\* present, or removed with the tooth count remembered (by removeSolar)
\* or not (a stage loaded without a sun)
RingedStages ==
  {[id |-> 1, solarZ |-> sl[1], planetsZ |-> ch, annulusZ |-> an,
    lastSolarZ |-> sl[2], lastAnnulusZ |-> <<>>, planetCopies |-> cp] :
     sl \in {<<(<<2>>), (<<>>)>>, <<(<<20>>), (<<>>)>>,
             <<(<<>>), (<<2>>)>>, <<(<<>>), (<<20>>)>>, <<(<<>>), (<<>>)>>},
     ch \in {c \in PlanetChains : Len(c) >= 2},
     an \in AnnulusTeeth \ {<<>>},
     cp \in 1..5}

InitRemovePlanet ==
  /\ stage \in RingedStages
  /\ model = <<>>
  /\ result = NotCalled
  /\ montagem = NotCalled
  /\ topologia = NotCalled
  /\ phasing = NotCalled
  /\ ui = NoEditor

\* removePlanet and the validation of the stage in the effect after it
RemovePlanetOfStage ==
  \E idx \in 1..Len(stage.planetsZ) :
    /\ ~montagem.called
    /\ stage' = removePlanetStage(stage, idx)
    /\ montagem' = validarMontagem(stage'.solarZ, stage'.planetsZ, stage'.annulusZ,
                                   stage'.planetCopies)
    /\ UNCHANGED <<model, result, topologia, phasing, ui>>

NextRemovePlanet == RemovePlanetOfStage

SpecRemovePlanet == InitRemovePlanet /\ [][NextRemovePlanet]_vars

----------------------------------------------------------------------------
(* Mesh graphs handed to the topology analysis.                            *)

\* the longest list of meshes drawn
MaxMeshes == 3

\* sun, two planets (the second too large for the ring) and ring, two carriers
GearSet ==
  [elements |-> <<[id |-> "sol1", type |-> "solar", N |-> <<2>>, omega |-> "omega_s1"],
                  [id |-> "p1_1", type |-> "planet", N |-> <<1>>, omega |-> "omega_p1_1"],
                  [id |-> "p1_2", type |-> "planet", N |-> <<3>>, omega |-> "omega_p1_2"],
                  [id |-> "ann1", type |-> "annulus", N |-> <<4>>, omega |-> "omega_a1"]>>,
   meshes |-> <<>>,
   constraints |-> <<>>,
   ratios |-> <<>>,
   carriers |-> <<[id |-> "arm1", omega |-> "omega_b1"], [id |-> "arm2", omega |-> "omega_b2"]>>]

MeshOn(carrier, i, j) == [i |-> i, j |-> j, carrier |-> carrier, type |-> "external"]

\* a straight path on the first carrier and an impossible one on the second
GearSetTwoPaths ==
  [GearSet EXCEPT !.meshes =
     <<MeshOn("omega_b1", "omega_s1", "omega_p1_1"), MeshOn("omega_b1", "omega_p1_1", "omega_a1"),
       MeshOn("omega_b2", "omega_s1", "omega_p1_2"), MeshOn("omega_b2", "omega_p1_2", "omega_a1")>>]

\* the chain through both planets and the short cut past the second
GearSetShortCut ==
  [GearSet EXCEPT !.meshes =
     <<MeshOn("omega_b1", "omega_s1", "omega_p1_2"), MeshOn("omega_b1", "omega_p1_2", "omega_p1_1"),
       MeshOn("omega_b1", "omega_p1_1", "omega_a1"), MeshOn("omega_b1", "omega_s1", "omega_p1_1")>>]

\* a mesh between two gears on one of the carriers
MeshChoices ==
  {MeshOn(GearSet.carriers[c].omega, GearSet.elements[i].omega, GearSet.elements[j].omega) :
     <<c, i, j>> \in {t \in (1..2) \X (1..4) \X (1..4) : t[2] < t[3]}}

MeshLists == UNION {[1..n -> MeshChoices] : n \in 0..MaxMeshes}

TopologyModels ==
  {[GearSet EXCEPT !.meshes = ms] : ms \in MeshLists} \cup {GearSetTwoPaths, GearSetShortCut}

InitTopology ==
  /\ model \in TopologyModels
  /\ topologia = NotCalled
  /\ result = NotCalled
  /\ stage = <<>>
  /\ montagem = NotCalled
  /\ phasing = NotCalled
  /\ ui = NoEditor

NextTopology == AnalyzeTopology

SpecTopology == InitTopology /\ [][NextTopology]_vars

----------------------------------------------------------------------------
(* What the claims speak about.                                            *)

\* some element carries w and has a tooth count
HasTeeth(m, w) ==
  \E k \in 1..Len(m.elements) : m.elements[k].omega = w /\ m.elements[k].N # <<>>

\* every mesh endpoint names an element that has a tooth count
WellFormed(m) ==
  \A k \in 1..Len(m.meshes) : HasTeeth(m, m.meshes[k].i) /\ HasTeeth(m, m.meshes[k].j)

TeethOf(m, w) ==
  (CHOOSE e \in {m.elements[k] : k \in 1..Len(m.elements)} : e.omega = w /\ e.N # <<>>).N[1]

\* the variables named by elements, carriers and constraints
NamedVars(m) ==
  {m.elements[k].omega : k \in 1..Len(m.elements)}
    \cup {m.carriers[k].omega : k \in 1..Len(m.carriers)}
    \cup {m.constraints[k].var : k \in {h \in 1..Len(m.constraints) : m.constraints[h].type # "equal"}}
    \cup {m.constraints[k].a : k \in {h \in 1..Len(m.constraints) : m.constraints[h].type = "equal"}}
    \cup {m.constraints[k].b : k \in {h \in 1..Len(m.constraints) : m.constraints[h].type = "equal"}}

NRows(m) == Len(m.meshes) + Len(m.constraints)
NVars(m) == Cardinality(NamedVars(m))

\* the system A.w = b of a well-formed model and the two ranks of step 5
SysOf(m) == stack(Rows(m, VList(m)))
RankA(m) == rankOf(SysOf(m).A)
RankAug(m) ==
  LET sk == SysOf(m)
  IN  rankOf(Strict([i \in 1..Len(sk.A) |-> Append(sk.A[i], sk.b[i])]))

\* Ni*(w_i - w_c) + sign*Nj*(w_j - w_c) = 0 under the velocities V
MeshHolds(m, V, me) ==
  LET sign == IF me.type = "external" THEN 1 ELSE -1
  IN  NAdd(NMul(Num(TeethOf(m, me.i)), NSub(V[me.i], V[me.carrier])),
           NMul(Num(sign * TeethOf(m, me.j)), NSub(V[me.j], V[me.carrier]))) = Zero

ConstraintHolds(V, c) ==
  IF c.type = "known" THEN V[c.var] = (IF c.value = <<>> THEN Zero ELSE c.value[1])
  ELSE IF c.type = "equal" THEN V[c.a] = V[c.b]
  ELSE V[c.var] = Zero

\* every known speed is a whole number of rpm (no part below the tolerance)
WholeSpeeds(m) ==
  \A k \in 1..Len(m.constraints) :
    m.constraints[k].value = <<>> \/ IsPure(m.constraints[k].value[1])

----------------------------------------------------------------------------
(* C1: whenever solve returns a velocity map, the velocities satisfy every *)
(* emitted equation (mesh, known, equal, lock) and the map has exactly one *)
(* entry per variable named by elements, carriers and constraints.         *)
C1_SolutionSatisfiesEquations ==
  result.kind = "solved" =>
    /\ DOMAIN result.velocities = NamedVars(model)
    /\ \A k \in 1..Len(model.meshes) : MeshHolds(model, result.velocities, model.meshes[k])
    /\ \A k \in 1..Len(model.constraints) :
         ConstraintHolds(result.velocities, model.constraints[k])

\* C1 where no speed has a part below the tolerance: there it holds
C1_WholeSpeeds == WholeSpeeds(model) => C1_SolutionSatisfiesEquations

----------------------------------------------------------------------------
(* C2: if rank([A|b]) > rank(A) the result is the overdetermined variant   *)
(* with conflictingConstraints = max(1, rank([A|b]) - rank(A), m - n) and  *)
(* no velocities, also when the system is rank-deficient as well.          *)
C2_Overdetermined ==
  (WellFormed(model) /\ NRows(model) >= 1 /\ RankAug(model) > RankA(model)) =>
    /\ result.kind = "overdetermined"
    /\ result.conflictingConstraints =
         Max2(Max2(1, RankAug(model) - RankA(model)), NRows(model) - NVars(model))
    /\ result.velocities = EmptyMap

\* inconsistent and rank-deficient at once
C2_Witness ==
  /\ WellFormed(model) /\ NRows(model) >= 1
  /\ RankAug(model) > RankA(model)
  /\ RankA(model) < NVars(model)
  /\ result.kind = "overdetermined"

----------------------------------------------------------------------------
(* C3: a consistent system with rank(A) < n gives the underdetermined      *)
(* variant with missingConstraints = n - rank(A) >= 1 and no velocities; a *)
(* velocity map is returned only when rank([A|b]) = rank(A) = n.           *)
C3_Underdetermined ==
  WellFormed(model) =>
    /\ (RankAug(model) = RankA(model) /\ RankA(model) < NVars(model)) =>
         /\ result.kind = "underdetermined"
         /\ result.missingConstraints = NVars(model) - RankA(model)
         /\ result.missingConstraints >= 1
         /\ result.velocities = EmptyMap
    /\ result.kind = "solved" =>
         (RankAug(model) = RankA(model) /\ RankA(model) = NVars(model))

\* C3 for the models that emit at least one row: there it holds
C3_WithRows == NRows(model) >= 1 => C3_Underdetermined

----------------------------------------------------------------------------
(* C4: on a model whose mesh endpoints all name elements with a tooth      *)
(* count, solve never raises and returns one of the three variants; a      *)
(* model with elements but no mesh and no constraint is underdetermined.   *)
C4_NeverRaises ==
  WellFormed(model) =>
    /\ result.kind \in {"solved", "underdetermined", "overdetermined"}
    /\ (model.elements # <<>> /\ model.meshes = <<>> /\ model.constraints = <<>>)
         => result.kind = "underdetermined"

\* C4 for the models that emit at least one row: there it holds
C4_WithRows == NRows(model) >= 1 => C4_NeverRaises

----------------------------------------------------------------------------
(* C5: if a mesh names as one of its two gears a variable that no element  *)
(* carries, or an element without tooth count, solve raises (whatever the  *)
(* ranks would be) and returns no variant; no tooth count is defaulted.    *)
C5_DanglingMeshRaises ==
  ~WellFormed(model) =>
    /\ result.kind = "raised"
    /\ result.error \in {"Elemento nao encontrado", "Elemento sem N"}

\* a dangling mesh in a model that two conflicting speeds make inconsistent
C5_Witness ==
  /\ ~WellFormed(model)
  /\ result.kind = "raised"
  /\ \E k, h \in 1..Len(model.constraints) :
       /\ model.constraints[k].type = "known" /\ model.constraints[h].type = "known"
       /\ model.constraints[k].var = model.constraints[h].var
       /\ model.constraints[k].value = <<Num(0)>> /\ model.constraints[h].value = <<Num(10)>>

----------------------------------------------------------------------------
(* C6: sun 20 teeth at 10 rpm, ring 60 teeth at 0 rpm, one planet, carrier *)
(* unknown: solve returns a velocity map with the carrier at 2.5 rpm.      *)
IsC6Model(m) ==
  /\ m.meshes = StageMeshes(StageA)
  /\ m.elements = StageElements(StageA)
  /\ m.constraints = <<Known("omega_s1", Num(10)), Known("omega_a1", Num(0))>>

C6_CarrierSpeed ==
  IsC6Model(model) =>
    /\ result.kind = "solved"
    /\ result.velocities["omega_b1"] = <<5, 0, 2>>

C6_Witness == IsC6Model(model) /\ result.kind = "solved"

----------------------------------------------------------------------------
(* C7: a multi-stage model with meshes and no constraint is reported       *)
(* underdetermined with missingConstraints >= 1; as constraints are added  *)
(* one at a time, the reported missingConstraints never increases from one *)
(* solve to the next; once rank(A) = n with a consistent system the result *)
(* is a velocity map.                                                      *)
MultiStage(m) == Len(m.carriers) >= 2 /\ Len(m.meshes) >= 1 /\ WellFormed(m)

\* the underdetermined variant is the one that reports what is missing
ReportsMissing(r) == r.kind = "underdetermined"

C7_StartsUnder ==
  (MultiStage(model) /\ model.constraints = <<>>) =>
    (result.kind = "underdetermined" /\ result.missingConstraints >= 1)

C7_FullRankSolved ==
  (MultiStage(model) /\ RankAug(model) = RankA(model) /\ RankA(model) = NVars(model)) =>
    result.kind = "solved"

C7_StepAny ==
  (MultiStage(model) /\ ReportsMissing(result) /\ ReportsMissing(result')) =>
    result'.missingConstraints <= result.missingConstraints

\* the claim as stated: whatever constraint is added
C7_MissingNeverIncreases ==
  [](C7_StartsUnder /\ C7_FullRankSolved) /\ [][C7_StepAny]_vars

C7_StepSameVars ==
  (MultiStage(model) /\ NamedVars(model') = NamedVars(model)
     /\ ReportsMissing(result) /\ ReportsMissing(result')) =>
    result'.missingConstraints <= result.missingConstraints

\* C7 for the additions that name only variables the model already has
C7_MissingNeverIncreasesSameVars ==
  [](C7_StartsUnder /\ C7_FullRankSolved) /\ [][C7_StepSameVars]_vars

\* two constraints added to the two-stage model, two fewer missing
C7_Witness ==
  /\ MultiStage(model)
  /\ Len(model.constraints) = 2
  /\ NVars(model) = 5
  /\ result.kind = "underdetermined"
  /\ result.missingConstraints = 2

----------------------------------------------------------------------------
(* C8: two known constraints on the same variable with different values    *)
(* make solve return the overdetermined variant with                       *)
(* conflictingConstraints >= 1, whatever the other meshes and constraints. *)
ConflictingKnowns(m) ==
  \E k, h \in 1..Len(m.constraints) :
    /\ m.constraints[k].type = "known" /\ m.constraints[h].type = "known"
    /\ m.constraints[k].var = m.constraints[h].var
    /\ m.constraints[k].value # m.constraints[h].value

C8_ConflictingKnowns ==
  (WellFormed(model) /\ ConflictingKnowns(model)) =>
    (result.kind = "overdetermined" /\ result.conflictingConstraints >= 1)

\* C8 where no speed has a part below the tolerance: there it holds
C8_WholeSpeeds == WholeSpeeds(model) => C8_ConflictingKnowns

----------------------------------------------------------------------------
(* C9: when solve returns a velocity map V, solving the same model         *)
(* extended with one known constraint (var, V[var]) for every variable     *)
(* returns a velocity map equal to V, not the overdetermined variant.      *)
FedBack(m, r) ==
  [m EXCEPT !.constraints =
     @ \o [k \in 1..Len(r.variables) |-> Known(r.variables[k], r.velocities[r.variables[k]])]]

\* the tooth counts up to which the round trip is computed exactly
MaxRoundTripTeeth == 3

SmallTeeth(m) ==
  \A k \in 1..Len(m.elements) :
    m.elements[k].N = <<>> \/ m.elements[k].N[1] <= MaxRoundTripTeeth

C9_RoundTrip ==
  (result.kind = "solved" /\ SmallTeeth(model)) =>
    LET again == solveGearSystem(FedBack(model, result))
    IN  again.kind = "solved" /\ again.velocities = result.velocities

\* over-constrained but consistent: more rows than variables, with a mesh
C9_Witness ==
  /\ result.kind = "solved"
  /\ SmallTeeth(model)
  /\ Len(model.meshes) >= 1
  /\ NRows(model) > NVars(model)
  /\ solveGearSystem(FedBack(model, result)).kind = "solved"

----------------------------------------------------------------------------
(* C10: in a solved result every ratio request is reported; its value is   *)
(* NaN when the denominator's velocity is below 1e-12 in absolute value,   *)
(* velocities[num] / velocities[den] otherwise, and never Infinity.        *)
C10_RatioGuard ==
  result.kind = "solved" =>
    /\ Len(result.ratios) = Len(model.ratios)
    /\ \A k \in 1..Len(model.ratios) :
         LET rq == model.ratios[k]
             out == result.ratios[k]
             V == result.velocities
         IN  /\ out.id = rq.id
             /\ out.value.kind # "Infinity"
             /\ (rq.den \in DOMAIN V /\ rq.num \in DOMAIN V) =>
                  IF AbsLt1e12(V[rq.den]) THEN out.value.kind = "NaN"
                  ELSE out.value = [kind |-> "number", num |-> V[rq.num], den |-> V[rq.den]]

\* a zero denominator under a non-zero numerator
C10_Witness ==
  /\ result.kind = "solved"
  /\ \E k \in 1..Len(model.ratios) :
       /\ model.ratios[k].den \in DOMAIN result.velocities
       /\ model.ratios[k].num \in DOMAIN result.velocities
       /\ IsZero(result.velocities[model.ratios[k].den])
       /\ ~IsZero(result.velocities[model.ratios[k].num])
       /\ result.ratios[k].value.kind = "NaN"

----------------------------------------------------------------------------
(* The assembly validator, on one stage.                                   *)

HasSun == stage.solarZ # <<>>
HasRing == stage.annulusZ # <<>>
NPlanets == Len(stage.planetsZ)
Validated == stage # <<>> /\ montagem.called

\* C11: with a sun, a ring and exactly one planet the validator answers
\* straight and valid exactly when Na = Ns + 2 * Np, and impossible and not
\* valid for every other Na, whatever the number of copies.
C11_OnePlanetEquality ==
  (Validated /\ HasSun /\ HasRing /\ NPlanets = 1) =>
    montagem = IF stage.annulusZ[1] = stage.solarZ[1] + 2 * stage.planetsZ[1]
                 THEN Montagem("reto", TRUE)
                 ELSE Montagem("impossivel", FALSE)

C11_Witness ==
  /\ Validated /\ HasSun /\ HasRing /\ NPlanets = 1
  /\ stage.planetCopies = 3
  /\ montagem = Montagem("reto", TRUE)

\* C12: with a sun, a ring and two or more planets the validator answers
\* impossible above Ns + 2 * sum(Np), straight at it and curved below it,
\* for chains of two and of three or more planets alike.
C12_ChainLimit ==
  (Validated /\ HasSun /\ HasRing /\ NPlanets >= 2) =>
    LET max == stage.solarZ[1] + 2 * SumSeq(stage.planetsZ)
        Na == stage.annulusZ[1]
    IN  montagem = IF Na > max THEN Montagem("impossivel", FALSE)
                   ELSE IF Na = max THEN Montagem("reto", TRUE)
                   ELSE Montagem("curvo", TRUE)

C12_Witness ==
  /\ Validated /\ HasSun /\ HasRing /\ NPlanets = 2
  /\ stage.annulusZ[1] = stage.solarZ[1] + 2 * SumSeq(stage.planetsZ)
  /\ montagem = Montagem("reto", TRUE)

\* C13: without a ring the validator answers open and valid, for every sun
\* (present or not), every chain (empty or not) and every copy count.
C13_NoRingOpen ==
  (Validated /\ ~HasRing) => montagem = Montagem("aberta", TRUE)

C13_Witness ==
  /\ Validated /\ ~HasRing /\ ~HasSun /\ NPlanets >= 1 /\ stage.planetCopies > 1
  /\ montagem = Montagem("aberta", TRUE)

\* C14: with a sun and a ring and no planet the validator answers
\* impossible and not valid for all tooth counts, no other rule coming first.
C14_SunRingNoPlanet ==
  (Validated /\ HasSun /\ HasRing /\ NPlanets = 0) =>
    montagem = Montagem("impossivel", FALSE)

C14_Witness ==
  /\ Validated /\ HasSun /\ HasRing /\ NPlanets = 0
  /\ stage.annulusZ[1] < stage.solarZ[1]
  /\ montagem = Montagem("impossivel", FALSE)

\* ceil(Zc * (1 + 1 / sin(pi / c))) of the real numbers: 1 / sin(pi / c) is
\* 1 for c = 2 and 2 for c = 6, and irrational for 3, 4, 5, 7 and 8
RealMinNa(Zc, c) ==
  IF Zc = 0 THEN 0
  ELSE IF c = 2 THEN 2 * Zc
  ELSE IF c = 6 THEN 3 * Zc
  ELSE (Zc * CscFactorMicro(c)) \div 1000000 + 1

\* C15: with a ring, no sun and at least one planet, Zc the last planet:
\* one copy is valid exactly when |Na| > Zc, c > 1 copies exactly when
\* |Na| >= ceil(Zc * (1 + 1 / sin(pi / c))), which is 2 * Zc for c = 2 and
\* 3 * Zc for c = 6; otherwise the answer is impossible.
C15_RingOnlyThreshold ==
  (Validated /\ ~HasSun /\ HasRing /\ NPlanets >= 1) =>
    LET Zc == stage.planetsZ[NPlanets]
        c == CopiesOf(stage.planetCopies)
        fits == IF c = 1 THEN Abs(stage.annulusZ[1]) > Zc
                ELSE Abs(stage.annulusZ[1]) >= RealMinNa(Zc, c)
    IN  /\ montagem.valido = fits
        /\ ~fits => montagem.tipo = "impossivel"

\* C15 with one to five copies: the code's threshold is the claim's
C15_UpToFiveCopies ==
  (Validated /\ ~HasSun /\ HasRing /\ NPlanets >= 1 /\ stage.planetCopies <= 5) =>
    LET Zc == stage.planetsZ[NPlanets]
        c == CopiesOf(stage.planetCopies)
        fits == IF c = 1 THEN Abs(stage.annulusZ[1]) > Zc
                ELSE Abs(stage.annulusZ[1]) >= RealMinNa(Zc, c)
    IN  montagem = IF fits THEN Montagem("aberta", TRUE) ELSE Montagem("impossivel", FALSE)

----------------------------------------------------------------------------
(* The topology analysis of the model built from one stage.                *)

Analysed == stage # <<>> /\ topologia.called

\* the TopologyStatus that stands for a MontagemTipo
StatusOfTipo(tipo) ==
  CASE tipo = "reto" -> "braco-reto"
    [] tipo = "curvo" -> "braco-curvo"
    [] tipo = "impossivel" -> "impossivel-1planeta-modulo"
    [] OTHER -> "none"

TipoOfStage ==
  validarMontagem(stage.solarZ, stage.planetsZ, stage.annulusZ, stage.planetCopies).tipo

\* C16 as stated: the sun-ring path of a stage with a sun, a ring and one
\* or two planets has the status (straight, curved, impossible) that the
\* validator gives the same tooth counts; a 2-planet path is curved only
\* when Na < Ns + 2 * (Np1 + Np2).
C16_PathAsValidator ==
  (Analysed /\ HasSun /\ HasRing /\ NPlanets \in {1, 2}) =>
    /\ Len(topologia.caminhos) = 1
    /\ topologia.caminhos[1].status = StatusOfTipo(TipoOfStage)

\* C16, amended: a 1-planet path has the validator's status; a 2-planet path
\* is straight exactly when Na = Ns + 2 * (Np1 + Np2) and curved for every
\* other Na, also above the limit, where the validator answers impossible.
C16_PathStatus ==
  (Analysed /\ HasSun /\ HasRing /\ NPlanets \in {1, 2}) =>
    /\ Len(topologia.caminhos) = 1
    /\ topologia.caminhos[1].nPlanetas = NPlanets
    /\ topologia.caminhos[1].status =
         IF NPlanets = 1 THEN StatusOfTipo(TipoOfStage)
         ELSE IF stage.annulusZ[1] = stage.solarZ[1] + 2 * SumSeq(stage.planetsZ)
           THEN "braco-reto"
         ELSE "braco-curvo"

C16_Witness ==
  /\ Analysed /\ HasSun /\ HasRing /\ NPlanets = 2
  /\ stage.annulusZ[1] > stage.solarZ[1] + 2 * SumSeq(stage.planetsZ)
  /\ TipoOfStage = "impossivel"
  /\ topologia.caminhos[1].status = "braco-curvo"

----------------------------------------------------------------------------
(* The topology analysis of mesh graphs.                                   *)

StatusesOf(caminhos) == {caminhos[k].status : k \in 1..Len(caminhos)}

\* C17: the summary is impossible when a reported path is impossible,
\* else straight when a reported path is straight, else curved (also when
\* no path is reported).
C17_Summary ==
  topologia.called =>
    LET st == StatusesOf(topologia.caminhos)
    IN  /\ "impossivel-1planeta-modulo" \in st => topologia.resumo = "impossivel-1planeta-modulo"
        /\ ("impossivel-1planeta-modulo" \notin st /\ "braco-reto" \in st) =>
             topologia.resumo = "braco-reto"
        /\ ("impossivel-1planeta-modulo" \notin st /\ "braco-reto" \notin st) =>
             topologia.resumo = "braco-curvo"

C17_Witness ==
  /\ topologia.called
  /\ {"impossivel-1planeta-modulo", "braco-reto"} \subseteq StatusesOf(topologia.caminhos)
  /\ topologia.resumo = "impossivel-1planeta-modulo"

\* the mesh graph of one carrier, from the meshes themselves
Joined(c, u, v) ==
  \E k \in 1..Len(model.meshes) :
    /\ model.meshes[k].carrier = c
    /\ {model.meshes[k].i, model.meshes[k].j} = {u, v}

Nodes == {model.elements[k].omega : k \in 1..Len(model.elements)}

\* the nodes at most n meshes of carrier c away from s
RECURSIVE Within(_, _, _)
Within(c, s, n) ==
  IF n = 0 THEN {s}
  ELSE LET near == Within(c, s, n - 1)
       IN  near \cup {v \in Nodes : \E u \in near : Joined(c, u, v)}

Reachable(c, s, a) == a \in Within(c, s, Cardinality(Nodes))

\* the number of nodes of a shortest path from s to a
ShortestLen(c, s, a) ==
  1 + CHOOSE n \in 0..Cardinality(Nodes) :
        /\ a \in Within(c, s, n)
        /\ \A k \in 0..(n - 1) : a \notin Within(c, s, k)

CarrierOmegas ==
  {model.carriers[k].omega : k \in 1..Len(model.carriers)}
    \cup {model.meshes[k].carrier : k \in 1..Len(model.meshes)}

Reported(c, s, a) ==
  {k \in 1..Len(topologia.caminhos) :
     /\ topologia.caminhos[k].carrier = c
     /\ topologia.caminhos[k].caminho[1] = s
     /\ topologia.caminhos[k].caminho[Len(topologia.caminhos[k].caminho)] = a}

Suns == {model.elements[k].omega : k \in {h \in 1..Len(model.elements) : model.elements[h].type = "solar"}}
Rings == {model.elements[k].omega : k \in {h \in 1..Len(model.elements) : model.elements[h].type = "annulus"}}

\* C18: for every carrier and every (sun, ring) pair a path is reported
\* exactly when the ring is reachable from the sun over the meshes of that
\* carrier; a reported path runs from a sun to a ring of the model on a
\* carrier, consecutive nodes are joined by a mesh of that carrier, and no
\* path between them has fewer nodes.
C18_ShortestPaths ==
  topologia.called =>
    /\ \A c \in CarrierOmegas, s \in Suns, a \in Rings :
         (Reported(c, s, a) # {}) <=> Reachable(c, s, a)
    /\ \A k \in 1..Len(topologia.caminhos) :
         LET r == topologia.caminhos[k]
             n == Len(r.caminho)
         IN  /\ n >= 2
             /\ r.carrier \in CarrierOmegas
             /\ r.caminho[1] \in Suns
             /\ r.caminho[n] \in Rings
             /\ \A h \in 1..(n - 1) : Joined(r.carrier, r.caminho[h], r.caminho[h + 1])
             /\ n = ShortestLen(r.carrier, r.caminho[1], r.caminho[n])

\* a path of three nodes reported where a longer route exists as well, and
\* a carrier on which the ring is out of reach
C18_Witness ==
  /\ topologia.called
  /\ \E k \in 1..Len(topologia.caminhos) :
       LET r == topologia.caminhos[k]
       IN  /\ Len(r.caminho) = 3
           /\ Joined(r.carrier, r.caminho[1], "omega_p1_2")
           /\ Joined(r.carrier, "omega_p1_2", r.caminho[2])
  /\ \E c \in CarrierOmegas : \A s \in Suns, a \in Rings : ~Reachable(c, s, a)

----------------------------------------------------------------------------
(* The copy angles of one stage.                                           *)

Phased == stage # <<>> /\ phasing.called

\* an angle p/q of a turn lies in [0, 2 * pi)
InTurn(a) == 0 <= a[1] /\ a[1] < a[2]

\* D and Z_eff as the text has them: +1 for an odd chain length, -1 for an
\* even one
ZEffOfStage ==
  Abs(stage.solarZ[1] + (IF NPlanets % 2 = 1 THEN 1 ELSE -1) * Abs(stage.annulusZ[1]))

\* C19: every entry of copyAngles lies in [0, 2 * pi), the entries are
\* pairwise distinct unless Z_eff = 0, and for N = 1 copyAngles is [0].
C19_CopyAngles ==
  Phased =>
    LET N == ClampCopies(stage.planetCopies)
        ang == phasing.copyAngles
    IN  /\ Len(ang) = N
        /\ \A i \in 1..N : InTurn(ang[i])
        /\ ~(HasSun /\ HasRing /\ ZEffOfStage = 0) =>
             \A i, j \in 1..N : i # j => ang[i] # ang[j]
        /\ N = 1 => ang = <<Turn(0, 1)>>

\* C19 without the distinctness: the range and the single copy
C19_RangeAndSingle ==
  Phased =>
    /\ Len(phasing.copyAngles) = ClampCopies(stage.planetCopies)
    /\ \A i \in 1..Len(phasing.copyAngles) : InTurn(phasing.copyAngles[i])
    /\ ClampCopies(stage.planetCopies) = 1 => phasing.copyAngles = <<Turn(0, 1)>>

\* k_m: the integer nearest to m * Z / N, halves rounded up
NearestTick(m, N, Z) == (2 * m * Z + N) \div (2 * N)

\* C20: with sun and ring, N > 1 and Z_eff # 0, copy m stands at
\* k_m * 2 * pi / Z_eff modulo 2 * pi, k_m the integer nearest to
\* m * Z_eff / N with halves rounded up, hence within half a tick of
\* 2 * pi * m / N; without sun or ring, or with Z_eff = 0, copy m stands at
\* exactly 2 * pi * m / N.
C20_NearestTick ==
  (Phased /\ ClampCopies(stage.planetCopies) > 1) =>
    LET N == ClampCopies(stage.planetCopies)
        ang == phasing.copyAngles
    IN  /\ Len(ang) = N
        /\ IF HasSun /\ HasRing /\ ZEffOfStage # 0
             THEN \A m \in 0..(N - 1) :
                    /\ ang[m + 1] = Turn(NearestTick(m, N, ZEffOfStage) % ZEffOfStage, ZEffOfStage)
                    /\ 2 * Abs(NearestTick(m, N, ZEffOfStage) * N - m * ZEffOfStage) <= N
             ELSE \A m \in 0..(N - 1) : ang[m + 1] = Turn(m, N)

\* C20 where sun or ring is absent or Z_eff = 0: the equal spacing
C20_EqualSpacing ==
  (Phased /\ ClampCopies(stage.planetCopies) > 1
     /\ (~HasSun \/ ~HasRing \/ (NPlanets > 0 /\ ZEffOfStage = 0))) =>
    phasing.copyAngles = [i \in 1..ClampCopies(stage.planetCopies) |->
                            Turn(i - 1, ClampCopies(stage.planetCopies))]

\* two copies of a two-planet stage with Z_eff = 1 at the same angle
C19_Collision ==
  /\ Phased /\ HasSun /\ HasRing /\ NPlanets = 2 /\ ZEffOfStage = 1
  /\ ClampCopies(stage.planetCopies) = 2
  /\ phasing.copyAngles[1] = phasing.copyAngles[2]

\* the second of two copies at tick 12 of 25, the half 12.5 rounded down
C20_HalfRoundedDown ==
  /\ Phased /\ HasSun /\ HasRing /\ NPlanets = 1 /\ ZEffOfStage = 25
  /\ ClampCopies(stage.planetCopies) = 2
  /\ NearestTick(1, 2, 25) = 13
  /\ phasing.copyAngles[2] = Turn(12, 25)

----------------------------------------------------------------------------
(* Lock as a known speed of 0.                                             *)

\* the constraints with every lock, and every known without a value,
\* written as the known constraint with value v (<<>>: no value)
LocksAsKnown(cs, v) ==
  [k \in 1..Len(cs) |->
     IF cs[k].type = "lock" \/ (cs[k].type = "known" /\ cs[k].value = <<>>)
       THEN [type |-> "known", var |-> cs[k].var, a |-> "", b |-> "", value |-> v]
       ELSE cs[k]]

\* C25: solving with every lock(var) replaced by known(var, 0), and with
\* every known without a value replaced by known(var, 0), gives the same
\* variant, the same counts and the same velocities.
C25_LockIsKnownZero ==
  /\ result = solveGearSystem([model EXCEPT !.constraints = LocksAsKnown(@, <<Zero>>)])
  /\ result = solveGearSystem([model EXCEPT !.constraints = LocksAsKnown(@, <<>>)])

C25_Witness ==
  /\ \E k \in 1..Len(model.constraints) : model.constraints[k].type = "lock"
  /\ \E k \in 1..Len(model.constraints) :
       model.constraints[k].type = "known" /\ model.constraints[k].value # <<Zero>>
  /\ result.kind = "solved"
  /\ result = solveGearSystem([model EXCEPT !.constraints = LocksAsKnown(@, <<Zero>>)])

----------------------------------------------------------------------------
(* The validator's flag and kind.                                          *)

\* C28: valid is false exactly when the kind is impossible; open, straight
\* and curved come with valid true.
C28_ValidIffNotImpossible ==
  Validated =>
    /\ montagem.tipo \in {"aberta", "reto", "curvo", "impossivel"}
    /\ montagem.valido = (montagem.tipo # "impossivel")

C28_Witness ==
  /\ Validated /\ HasSun /\ HasRing /\ NPlanets = 2
  /\ montagem = Montagem("impossivel", FALSE)

\* ---------------------------------------------------------------------
\* C21..C23, C26: computeStagePhasing (SpecPhasing)
\* ---------------------------------------------------------------------

\* computeStagePhasing has returned for the stage
Returned == phasing.called /\ ~phasing.raised

\* the whole number nearest to the requested copies, a half going up
NearestWhole(x) == CHOOSE n \in -2..8 : (2 * n - 1) * x[2] <= 2 * x[1] /\ 2 * x[1] < (2 * n + 1) * x[2]

\* the requested copies rounded and held within 1..5
CopiesUsed == LET n == NearestWhole(stage.copies) IN IF n < 1 THEN 1 ELSE IF n > 5 THEN 5 ELSE n

\* the copy indices m for which planet k has a phase in the map
CopyIndices(k) == {m \in 0..9 : CopyKey(stage.stageId, k, m) \in DOMAIN phasing.gearPhaseMap}

\* C21: whatever copies is requested (zero, negative, fractional, above
\* five), the result has exactly N copy angles and exactly N phases per
\* planet, indexed 0..N-1, N being the request rounded and clamped to 1..5
C21_CopiesClamped ==
  Returned =>
    /\ Len(phasing.copyAngles) = CopiesUsed
    /\ \A k \in 1..Len(stage.planetsZ) : CopyIndices(k) = 0..(CopiesUsed - 1)
    /\ Len(stage.planetsZ) >= 1 => Len(phasing.planetOriginal) = CopiesUsed
    /\ Len(stage.planetsZ) >= 2 => Len(phasing.planetCoupled[1]) = CopiesUsed

\* 3.5 copies requested of a two-planet chain: four copies come back
C21_Witness ==
  /\ Returned
  /\ stage.copies = <<7, 2>>
  /\ Len(stage.planetsZ) = 2
  /\ Len(phasing.copyAngles) = 4
  /\ CopyIndices(2) = 0..3

\* the keys the phase map is to have for the planets of the stage
PlanetKeysOf(N) ==
  {"omega_p" \o ToString(stage.stageId) \o "_" \o ToString(k) \o "#copy" \o ToString(m) :
     <<k, m>> \in (1..Len(stage.planetsZ)) \X (0..(N - 1))}

SunKey == "omega_s" \o ToString(stage.stageId)
RingKey == "omega_a" \o ToString(stage.stageId)

\* the phase map has the planets' keys, the sun's key with phase 0 iff
\* there is a sun, and the ring's key iff ringGiven
KeysWithRingWhen(ringGiven) ==
  /\ DOMAIN phasing.gearPhaseMap =
       PlanetKeysOf(CopiesUsed)
         \cup (IF stage.solarZ # <<>> THEN {SunKey} ELSE {})
         \cup (IF ringGiven THEN {RingKey} ELSE {})
  /\ stage.solarZ # <<>> => phasing.gearPhaseMap[SunKey] = Zero /\ phasing.sunPhase = <<Zero>>
  /\ stage.solarZ = <<>> => phasing.sunPhase = <<>>
  /\ ringGiven => phasing.ringPhase = <<phasing.gearPhaseMap[RingKey]>>
  /\ ~ringGiven => phasing.ringPhase = <<>>

C22_RingWithoutPlanet ==
  /\ Returned
  /\ stage.annulusZ = <<4>> /\ stage.planetsZ = <<>>
  /\ RingKey \notin DOMAIN phasing.gearPhaseMap

\* a phase, n/d of a turn and t/d kappa radians, within [0, 2 pi)
PhaseInTurn(a) == (0 < a[1] /\ a[1] < a[3]) \/ (a[1] = 0 /\ a[2] >= 0)

\* every phase of the result: the sun's, the ring's, the map's values
PhasesOf ==
  {phasing.sunPhase[i] : i \in DOMAIN phasing.sunPhase}
    \cup {phasing.ringPhase[i] : i \in DOMAIN phasing.ringPhase}
    \cup {phasing.gearPhaseMap[key] : key \in DOMAIN phasing.gearPhaseMap}

\* C23: every phase returned (sunPhase, ringPhase, every value of the
\* phase map) lies in [0, 2 pi), whatever the teeth, copies and positions
C23_PhasesInTurn == Returned => \A a \in PhasesOf : PhaseInTurn(a)

\* a sun of 2, a lone planet of 1 straight below the centre: the planet's
\* phase is -3 kappa before normalisation and a whole turn after it
C23_WholeTurn ==
  /\ Returned
  /\ stage.solarZ = <<2>> /\ stage.planetsZ = <<1>> /\ stage.positions = ArmDown
  /\ AbsPhase(stage, 1, Zero)[1] = 0 /\ AbsPhase(stage, 1, Zero)[2] < 0
  /\ phasing.gearPhaseMap[CopyKey(1, 1, 0)] = One

\* the forward recurrence:
\* -phi_prev*(Zk/Zn) + (theta + meshAngle)*(1 + Zk/Zn) + parity(Zn)*(pi/Zn)
Recurrence(phi_prev, theta, meshAngle, Zk, Zn) ==
  NAdd(NSub(NMul(NAdd(theta, meshAngle), NAdd(One, <<Zk, 0, Zn>>)),
            NMul(phi_prev, <<Zk, 0, Zn>>)),
       IF Zn % 2 = 0 THEN <<1, 0, 2 * Zn>> ELSE Zero)

\* the angles of the copies of the result, as phases
CopyThetas == {PhaseOfTurn(phasing.copyAngles[m]) : m \in DOMAIN phasing.copyAngles}

\* C26: without a sun and with a ring, the phase (before normalisation)
\* the backward propagation gives planet k, put as phi_prev into the
\* forward recurrence, gives back the phase of planet k + 1, for every
\* copy and every planet before the last
C26_BackwardInvertsForward ==
  (Returned /\ RingAnchored(stage)) =>
    \A k \in 1..(Len(stage.planetsZ) - 1) : \A theta \in CopyThetas :
      Recurrence(AbsPhase(stage, k, theta), theta, MeshAngle(stage.positions, k + 1),
                 TeethOrOne(stage.planetsZ[k]), TeethOrOne(stage.planetsZ[k + 1]))
        = AbsPhase(stage, k + 1, theta)

\* no sun, a ring of 6, an odd, an even and an odd planet on a bent arm,
\* in three copies: the phases are propagated back over two meshes
C26_Witness ==
  /\ Returned /\ RingAnchored(stage)
  /\ stage.planetsZ = <<1, 2, 1>>
  /\ stage.positions = [k \in 1..3 |-> ArmBent(k)]
  /\ Len(phasing.copyAngles) = 3
  /\ AbsPhase(stage, 1, PhaseOfTurn(phasing.copyAngles[2])) # ForwardPhase(stage, 1, PhaseOfTurn(phasing.copyAngles[2]))

\* ---------------------------------------------------------------------
\* C24: the four functions leave their inputs alone (SpecCalls)
\* ---------------------------------------------------------------------

C24_WitnessRaised ==
  /\ result.called /\ topologia.called /\ montagem.called /\ phasing.called
  /\ result.out.kind = "solved"
  /\ phasing.raised

\* ---------------------------------------------------------------------
\* C29, C30: the editor after its handlers (SpecEditor)
\* ---------------------------------------------------------------------

\* the editor is open
Editing == ui # NoEditor

\* some stage of the editor is refused by the validator
SomeStageRefused ==
  \E k \in 1..Len(ui.stages) :
    ~validarMontagem(ui.stages[k].solarZ, ui.stages[k].planetsZ, ui.stages[k].annulusZ,
                     ui.stages[k].planetCopies).valido

\* the solver was run in the last recomputation and raised
SolverRaised == ui.solver.called /\ ui.solver.out.kind = "raised"

C29_Refused == Editing /\ SomeStageRefused /\ ~ui.solver.called /\ ui.error # NoMessage
C29_Over == Editing /\ ui.overdeterminedMessage # NoMessage /\ ui.result = <<>>
C29_Raised == Editing /\ SolverRaised /\ ui.result = <<>> /\ ui.error # NoMessage
C29_Solved == Editing /\ ui.result # <<>> /\ ui.error = NoMessage /\ Len(ui.stages[1].planetsZ) = 2

\* the variables of the gears and carriers the editor's stages have
ExistingOmegas ==
  UNION {{omegaB(ui.stages[k].id)}
           \cup (IF ui.stages[k].solarZ # <<>> THEN {omegaS(ui.stages[k].id)} ELSE {})
           \cup (IF ui.stages[k].annulusZ # <<>> THEN {omegaA(ui.stages[k].id)} ELSE {})
           \cup {omegaP(ui.stages[k].id, j) : j \in 1..Len(ui.stages[k].planetsZ)} :
         k \in 1..Len(ui.stages)}

\* the variables the known speeds, the couplings and the ratio name
NamedOmegas ==
  ({ui.speeds[k].var : k \in 1..Len(ui.speeds)}
     \cup {ui.couplings[k].a : k \in 1..Len(ui.couplings)}
     \cup {ui.couplings[k].b : k \in 1..Len(ui.couplings)}
     \cup {ui.ratio.entrada, ui.ratio.saida}) \ {""}

\* C30: after any sequence of addStage, removeStage, addPlanet,
\* removePlanet, removeSolar, restoreSolar, removeAnnulus, restoreAnnulus
\* every variable a known speed, a coupling or the ratio names is that of
\* a gear or carrier the editor has
C30_NamesExist == Editing => NamedOmegas \subseteq ExistingOmegas

\* the first stage removed after a second was added: the speeds and the
\* ratio still name its sun and ring
C30_StaleAfterRemoveStage ==
  /\ Editing
  /\ Len(ui.stages) = 1 /\ ui.stages[1].id = 2
  /\ ui.speeds[1].var = "omega_s1"
  /\ ui.ratio.saida = "omega_a1"

\* ---------------------------------------------------------------------
\* C27: removePlanet keeps the stage assemblable (SpecRemovePlanet)
\* ---------------------------------------------------------------------

\* C27: after removePlanet on a stage with a ring that keeps at least one
\* planet, the sun present or removed, the validator accepts the stage
C27_StillAssemblable ==
  (montagem.called /\ stage.annulusZ # <<>> /\ Len(stage.planetsZ) >= 1) => montagem.valido

\* the same with the sun present: the ring fits or was set to Ns + 2*sum(Np)
C27_SunPresent ==
  (montagem.called /\ stage.solarZ # <<>> /\ Len(stage.planetsZ) >= 1) => montagem.valido

\* the sun removed with 2 teeth remembered, a planet of 10 left in 4
\* copies: the ring was set to 2 + 2*10 = 22, below the 25 the copies need
C27_RingTooSmall ==
  /\ montagem.called /\ ~montagem.valido
  /\ stage.solarZ = <<>> /\ stage.lastSolarZ = <<2>>
  /\ stage.planetsZ = <<10>> /\ stage.planetCopies = 4
  /\ stage.annulusZ = <<22>> /\ stage.lastAnnulusZ = <<22>>

====
